---- MODULE Spec2Model ----
(***************************************************************************)
(* Model of the pld command-line uploader (src/index.js).                  *)
(*                                                                         *)
(* One behaviour is a sequence of invocations "pld -s <file> [service]"    *)
(* on one machine.  The config file and the history file persist across   *)
(* invocations; everything else is the state of the running process, and   *)
(* the clipboard is followed for the time of one invocation (between two   *)
(* invocations it belongs to other programs).  An action is one synchronous run of the JavaScript    *)
(* code between two suspension points (await), or one event delivered by   *)
(* the environment (a server response, a progress event, a signal).        *)
(*                                                                         *)
(* Abstractions: strings that the code concatenates are sequences of       *)
(* fragments; file sizes are whole MiB; Date.now() counts milliseconds from  *)
(* the start of the request; the date of a history entry is the number of  *)
(* the invocation that wrote it; IEEE rounding error of the progress       *)
(* arithmetic is ignored (ratios are exact).                               *)
(***************************************************************************)
EXTENDS Integers, Sequences, FiniteSets, TLC

\* ---------------------------------------------------------------- bounds
MaxInvocations == 2     \* invocations of the tool in one behaviour
HistOver == 1           \* a stored history starts with up to HISTORY_LIMIT + HistOver entries
MaxCallbacks == 2       \* progress events delivered during one request
MaxTotal == 2           \* progressEvent.total ranges over 0..MaxTotal (0: not computable)
MaxAttempts == 2        \* authorizations started by one pld --config

\* ------------------------------------------------------ program constants
HISTORY_LIMIT == 50
maxSizeGB == 10
MiBPerGiB == 1024       \* stats.size / (1024 * 1024 * 1024), sizes in MiB
k == 1024

PIXELDRAIN_UPLOAD_URL == "https://pixeldrain.com/api/file"
GofileUploadUrl == "https://upload.gofile.io/uploadfile"

\* ------------------------------------------------------------ the values
NoEntry == "<absent>"           \* undefined / null / missing JSON member
Truthy(s) == s \notin {NoEntry, ""}

ServiceFlags == {"gf", "pd", "gd", NoEntry, "xx"}   \* program.args[0]
Answers == {"y", "YES", "n", ""}                    \* replies to the size prompt
TimeSteps == {0, 1500}                                       \* ms between two progress events

\* The files of the machine: whether the path exists and its size in MiB,
\* one file of exactly 10 GiB and one just above.
FileSystem ==
    [missing |-> [exists |-> FALSE, size |-> 0],
     atLimit |-> [exists |-> TRUE, size |-> maxSizeGB * MiBPerGiB],
     overLimit |-> [exists |-> TRUE, size |-> maxSizeGB * MiBPerGiB + 1]]
Paths == DOMAIN FileSystem
existsSync(path) == FileSystem[path].exists
statSize(path) == FileSystem[path].size

VARIABLES
    config,         \* ~/.pld/config.json
    historyFile,    \* ~/.pld/history.json
    clipboard,      \* what this invocation wrote to the system clipboard
    inv,            \* number of the running invocation
    args,           \* options.send and program.args[0]
    pc,             \* where the process is suspended
    service,        \* uploadFile: service
    apiKey,         \* uploadFile: apiKey
    answer,         \* the reply as typed to "Continue upload anyway? (y/N)" (uploadFile),
                    \* to promptApiKey or to promptConfirmClear
    adapters,       \* the upload functions called by this invocation
    requests,       \* the HTTP upload requests sent by this invocation
    driveCalls,     \* the Drive API calls made by this invocation
    response,       \* the body of the successful response the adapter read
    caught,         \* the error the catch block of the adapter received
    sigintHandler,  \* handleCancel is registered with process.on('SIGINT')
    aborted,        \* abortController.signal.aborted
    sigintAt,       \* where the process was when SIGINT arrived, NoEntry if it did not
    progress,       \* lastLoaded, lastTime and the spinner text of the request
    output,         \* what the invocation printed
    shownLink,      \* the link printed under "Download Link:" / "Share Link:"
    histWrites,     \* writes of the history file by this invocation
    exitCode,       \* process exit code; -1 while running or when killed by a signal
    exitBy,         \* how the process ended
    writers,        \* two invocations that rewrite a file at the same time
    schedule,       \* the file accesses of the writers, in the order they happened
    listing,        \* displayHistory: history, displayLimit, the entries shown, linkIndex
    typed,          \* the reply typed at "Enter number (1-N)"
    printed,        \* the masked credentials pld --config printed
    oauth,          \* configureGoogleDrive: clientId, clientSecret, existingCredentials
    listener,       \* startCallbackServer: the server, its promise and its timer
    clock           \* milliseconds since the listener started

persistent == <<config, historyFile, clipboard>>
locals == <<service, apiKey, adapters>>
network == <<requests, driveCalls, response>>
signals == <<sigintHandler, aborted, sigintAt>>
console == <<output, shownLink>>
ending == <<exitCode, exitBy>>
concurrent == <<writers, schedule>>
historyView == <<listing, typed>>
dialogue == <<printed, oauth, listener, clock>>
vars == <<config, historyFile, clipboard, inv, args, pc, service, apiKey, answer,
          adapters, requests, driveCalls, response, caught, sigintHandler, aborted, sigintAt, progress,
          output, shownLink, histWrites, exitCode, exitBy, writers, schedule,
          listing, typed, printed, oauth, listener, clock>>

\* ------------------------------------------------------------ arithmetic
\* Math.round(n / d) for d > 0: the nearest integer, halves towards +Infinity.
MathRound(n, d) == (2 * n + d) \div (2 * d)

RECURSIVE Pow(_, _)
Pow(b, e) == IF e = 0 THEN 1 ELSE b * Pow(b, e - 1)

\* Math.floor(Math.log(n) / Math.log(k)) for n >= 1.
RECURSIVE FloorLog(_)
FloorLog(n) == IF n < k THEN 0 ELSE 1 + FloorLog(n \div k)

sizes == <<"Bytes", "KB", "MB", "GB", "TB">>

\* formatFileSize(bytes) for bytes = mib * 2^20: <<hundredths, unit>> stands
\* for the string (hundredths / 100) + ' ' + unit.
formatFileSize(mib) ==
    IF mib = 0 THEN <<0, "Bytes">>
    ELSE LET i == 2 + FloorLog(mib)
         IN  <<MathRound(mib * 100, Pow(k, i - 2)),
               IF i + 1 \in DOMAIN sizes THEN sizes[i + 1] ELSE "undefined">>

\* String.prototype.toLowerCase on the replies the model enters.
toLowerCase(s) == IF s = "YES" THEN "yes" ELSE IF s = "Y" THEN "y" ELSE s

\* ------------------------------------------------------------ config store
NoGoogleDrive == [present |-> FALSE, clientId |-> "", clientSecret |-> "", refreshToken |-> ""]
GoogleDriveEntry(c, s, r) == [present |-> TRUE, clientId |-> c, clientSecret |-> s, refreshToken |-> r]

\* The JSON document of config.json.  exists = FALSE: no file, or a file that
\* does not parse (loadConfig returns null for both).  apiKey is the member
\* of the old format; hasServices tells whether the member services exists.
ConfigDoc(old, hasSvc, pd, gf, gd) ==
    [exists |-> TRUE, apiKey |-> old, hasServices |-> hasSvc,
     services |-> [pixeldrain |-> pd, gofile |-> gf], googleDrive |-> gd]
NullConfig ==
    [exists |-> FALSE, apiKey |-> NoEntry, hasServices |-> FALSE,
     services |-> [pixeldrain |-> NoEntry, gofile |-> NoEntry], googleDrive |-> NoGoogleDrive]

NullCredentials == [found |-> FALSE, apiKey |-> NoEntry]

\* getServiceCredentials(serviceType) for 'pixeldrain' and 'gofile'.  The
\* migration of the old format sits inside the branch that requires
\* config.services, where its own condition !config.services is false.
getServiceCredentials(cfg, serviceType) ==
    IF ~cfg.exists THEN NullCredentials
    ELSE IF cfg.hasServices /\ cfg.services[serviceType] # NoEntry
         THEN IF Truthy(cfg.apiKey) /\ ~cfg.hasServices /\ serviceType = "pixeldrain"
              THEN [found |-> TRUE, apiKey |-> cfg.apiKey]
              ELSE [found |-> TRUE, apiKey |-> cfg.services[serviceType]]
         ELSE NullCredentials

\* saveConfig that builds the document from scratch instead of from what
\* loadConfig() read.
saveConfigFromScratch(cfg, serviceType, credentials) ==
    LET base == [NullConfig EXCEPT !.exists = TRUE]
    IN  IF serviceType = "googleDrive"
        THEN [base EXCEPT !.googleDrive =
                 GoogleDriveEntry(credentials.clientId, credentials.clientSecret,
                                  credentials.refreshToken)]
        ELSE [base EXCEPT !.hasServices = TRUE, !.services[serviceType] = credentials.apiKey]

\* saveConfig(serviceType, credentials) applied to the document cfg that
\* its loadConfig() read: the document it writes.  credentials is
\* {apiKey} for 'pixeldrain' and 'gofile' and {clientId, clientSecret,
\* refreshToken} for 'googleDrive'; updatedAt is not modelled.
saveConfig(cfg, serviceType, credentials) ==
    LET base == IF cfg.exists THEN cfg ELSE [NullConfig EXCEPT !.exists = TRUE]
    IN  IF serviceType = "googleDrive"
        THEN [base EXCEPT !.googleDrive =
                 GoogleDriveEntry(credentials.clientId, credentials.clientSecret,
                                  credentials.refreshToken)]
        ELSE [base EXCEPT !.hasServices = TRUE, !.services[serviceType] = credentials.apiKey]

\* The config file after getServiceCredentials(serviceType) for 'pixeldrain'
\* and 'gofile': the branch that migrates the old format calls saveConfig.
migratedConfig(cfg, serviceType) ==
    IF /\ cfg.exists
       /\ cfg.hasServices /\ cfg.services[serviceType] # NoEntry
       /\ Truthy(cfg.apiKey) /\ ~cfg.hasServices /\ serviceType = "pixeldrain"
    THEN saveConfig(cfg, "pixeldrain", [apiKey |-> cfg.apiKey])
    ELSE cfg

\* getServiceCredentials('googleDrive'): config.googleDrive || null.
getGoogleDriveCredentials(cfg) ==
    IF cfg.exists THEN cfg.googleDrive ELSE NoGoogleDrive

\* getGoogleDriveClient that does not look at the refresh token.
getGoogleDriveClientNoToken(cfg) ==
    LET credentials == getGoogleDriveCredentials(cfg)
    IN  IF ~credentials.present \/ ~Truthy(credentials.clientId)
           \/ ~Truthy(credentials.clientSecret)
        THEN [ok |-> FALSE, refresh_token |-> ""]
        ELSE [ok |-> TRUE, refresh_token |-> credentials.refreshToken]

\* getGoogleDriveClient(): the OAuth2 client, or null (ok = FALSE).
getGoogleDriveClient(cfg) ==
    LET credentials == getGoogleDriveCredentials(cfg)
    IN  IF ~credentials.present \/ ~Truthy(credentials.clientId)
           \/ ~Truthy(credentials.clientSecret)
        THEN [ok |-> FALSE, refresh_token |-> ""]
        ELSE IF Truthy(credentials.refreshToken)
             THEN [ok |-> TRUE, refresh_token |-> credentials.refreshToken]
             ELSE [ok |-> FALSE, refresh_token |-> ""]

\* ----------------------------------------------------------- history store
\* history.json: absent, unreadable (JSON.parse throws), JSON that is not an
\* array, or an array of entries.
HistoryDoc(kind, entries) == [kind |-> kind, entries |-> entries]

HistoryEntry(svc, ts, name, size, id, link) ==
    [service |-> svc, timestamp |-> ts, filename |-> name, fileSize |-> size,
     fileId |-> id, downloadLink |-> link]

\* The i-th entry of a history stored before the behaviour starts.
StoredEntry(i) ==
    HistoryEntry("gofile", 0 - i, "stored", <<100, "MB">>, ToString(i), <<"https://gofile.io/d/", ToString(i)>>)

\* loadHistory(): [] for an absent or unreadable file, else the parsed JSON.
loadHistory(hf) == IF hf.kind = "list" THEN hf.entries ELSE <<>>

\* unshiftAndSplice without the splice.
unshiftOnly(history, entry) == <<entry>> \o history

\* history.unshift(entry) followed by the splice that keeps 50 entries.
unshiftAndSplice(history, entry) ==
    LET h == <<entry>> \o history
    IN  IF Len(h) > HISTORY_LIMIT THEN SubSeq(h, 1, HISTORY_LIMIT) ELSE h

\* saveHistory that pushes the entry at the tail and keeps the last 50.
saveHistoryAppend(hf, entry) ==
    IF hf.kind = "notlist"
    THEN [threw |-> TRUE, file |-> hf]
    ELSE LET h == Append(loadHistory(hf), entry)
         IN  [threw |-> FALSE,
              file |-> HistoryDoc("list",
                          IF Len(h) > HISTORY_LIMIT
                          THEN SubSeq(h, Len(h) - HISTORY_LIMIT + 1, Len(h)) ELSE h)]

\* saveHistory(entry): threw = TRUE when history.unshift is not a function
\* (the parsed JSON is not an array); the file is then left as it was.
saveHistory(hf, entry) ==
    IF hf.kind = "notlist"
    THEN [threw |-> TRUE, file |-> hf]
    ELSE [threw |-> FALSE, file |-> HistoryDoc("list", unshiftAndSplice(loadHistory(hf), entry))]

\* ------------------------------------------------------- service adapters
\* routeService with Pixeldrain as the default.
routeServiceDefaultPixeldrain(serviceFlag) ==
    IF serviceFlag = "gf" THEN "gofile"
    ELSE IF serviceFlag = "pd" THEN "pixeldrain"
    ELSE IF serviceFlag = "gd" THEN "googledrive"
    ELSE "pixeldrain"

\* uploadFile: the service a flag selects.
routeService(serviceFlag) ==
    IF serviceFlag = "gf" THEN "gofile"
    ELSE IF serviceFlag = "pd" THEN "pixeldrain"
    ELSE IF serviceFlag = "gd" THEN "googledrive"
    ELSE "gofile"

\* missingRequiredKey with the check left out.
keyNeverRequired(svc, key) == FALSE

\* uploadFile: !apiKey && service === 'pixeldrain'.
missingRequiredKey(svc, key) == ~Truthy(key) /\ svc = "pixeldrain"

\* uploadFile: the size check that precedes a Pixeldrain upload.
needsConfirmation(svc, path) ==
    svc = "pixeldrain" /\ existsSync(path) /\ statSize(path) > maxSizeGB * MiBPerGiB

\* confirms that continues unless the reply is a no.
confirmsUnlessNo(ans) == toLowerCase(ans) \notin {"n", "no"}

\* uploadFile: the replies that let the upload continue.
confirms(ans) == toLowerCase(ans) \in {"y", "yes"}

\* The Authorization header of the request (scheme, user, secret); the
\* Basic secret is sent as base64(user ':' secret).
NoAuthorization == [scheme |-> "none", user |-> "", secret |-> ""]
pixeldrainHeaders(key) == [scheme |-> "Basic", user |-> "", secret |-> key]
\* gofileHeaders that sets the header whatever the token.
gofileHeadersAlways(token) == [scheme |-> "Bearer", user |-> "", secret |-> token]

gofileHeaders(token) ==
    IF Truthy(token) THEN [scheme |-> "Bearer", user |-> "", secret |-> token]
    ELSE NoAuthorization

uploadRequest(svc, key, path) ==
    IF svc = "pixeldrain"
    THEN [service |-> svc, url |-> PIXELDRAIN_UPLOAD_URL, file |-> path,
          authorization |-> pixeldrainHeaders(key)]
    ELSE [service |-> svc, url |-> GofileUploadUrl, file |-> path,
          authorization |-> gofileHeaders(key)]

\* cancellable with the handler of Gofile left out.
cancellablePixeldrainOnly(svc) == svc = "pixeldrain"

\* The services that register handleCancel for SIGINT around their request.
cancellable(svc) == svc \in {"pixeldrain", "gofile"}

\* The JSON bodies of successful responses, as one record type: id and
\* webViewLink are top-level members, dataFileId and dataDownloadPage are
\* the members fileId and downloadPage of the member data (hasData tells
\* whether data is there); NoEntry is a member the body does not have.
\* NoBody: no response has been read.
Body(id, hasData, dataFileId, dataDownloadPage, webViewLink) ==
    [received |-> TRUE, id |-> id, hasData |-> hasData, dataFileId |-> dataFileId,
     dataDownloadPage |-> dataDownloadPage, webViewLink |-> webViewLink]
NoBody == [Body(NoEntry, FALSE, NoEntry, NoEntry, NoEntry) EXCEPT !.received = FALSE]
PixeldrainResponses == {Body("pdFile", FALSE, NoEntry, NoEntry, NoEntry)}
GofileResponses ==
    {Body(NoEntry, TRUE, "gfFile", "https://gofile.io/d/gfPage", NoEntry),
     Body(NoEntry, FALSE, NoEntry, NoEntry, NoEntry)}
DriveFiles ==
    {Body("gdFile", FALSE, NoEntry, NoEntry, "https://drive.google.com/file/d/gdFile/view?usp=drivesdk"),
     Body("gdFile", FALSE, NoEntry, NoEntry, NoEntry)}

\* The {fileId, downloadLink} pair each adapter reads from its response.
pixeldrainResult(data) ==
    [fileId |-> data.id, downloadLink |-> <<"https://pixeldrain.com/u/", data.id>>]
\* gofileResult that builds the link from the file id.
gofileResultFromId(data) ==
    [fileId |-> data.dataFileId, downloadLink |-> <<"https://gofile.io/d/", data.dataFileId>>]

gofileResult(data) ==
    [fileId |-> data.dataFileId, downloadLink |-> <<data.dataDownloadPage>>]
googleDriveResult(data) ==
    [fileId |-> data.id,
     downloadLink |-> IF Truthy(data.webViewLink) THEN <<data.webViewLink>>
                      ELSE <<"https://drive.google.com/file/d/", data.id, "/view?usp=sharing">>]

\* The historyEntry each adapter builds.
historyEntry(svc, now, path, result) ==
    HistoryEntry(svc, now, path, formatFileSize(statSize(path)), result.fileId, result.downloadLink)

\* driveSequence with the file info fetched before the permissions call.
driveSequenceGetFirst == <<"files.create", "files.get", "permissions.create">>

\* The Drive API calls of uploadToGoogleDrive, in the order of the code.
driveSequence == <<"files.create", "permissions.create", "files.get">>
DriveApis == {driveSequence[i] : i \in DOMAIN driveSequence}

\* The call as it is sent: permissions.create carries the requestBody
\* {role: 'reader', type: 'anyone'}.
driveCall(api) ==
    IF api = "permissions.create"
    THEN [api |-> api, role |-> "reader", type |-> "anyone"]
    ELSE [api |-> api, role |-> NoEntry, type |-> NoEntry]

\* ------------------------------------------------------ progress callback
NoDisplay == [shown |-> FALSE, percent |-> 0, speedNum |-> 0, speedDen |-> 1,
              eta |-> "number", etaSeconds |-> 0]

\* State of the request's progress tracking: lastLoaded and lastTime of the
\* code, the spinner text, the previous event's loaded (events are monotone),
\* and counts of events and of samples taken.  It lives as long as the
\* request: once axios.post settles or the process ends, the closure is dead
\* and the spinner text is replaced, and the model resets it.
startProgress(now, total) ==
    [total |-> total, now |-> now, eventLoaded |-> 0, lastLoaded |-> 0, lastTime |-> now,
     events |-> 0, samples |-> 0, display |-> NoDisplay]

\* Math.round(remainingBytes / speedBps) with speedBps = loadedDiff /
\* (timeDiffMs / 1000): a number, Infinity (x / 0, x > 0) or NaN (0 / 0).
etaKind(remainingBytes, loadedDiff) ==
    IF loadedDiff # 0 THEN "number"
    ELSE IF remainingBytes = 0 THEN "NaN" ELSE "Infinity"
\* etaSeconds that divides by the speed in bytes per millisecond.
etaMilliseconds(remainingBytes, loadedDiff, timeDiffMs) ==
    IF loadedDiff > 0 THEN MathRound(remainingBytes * timeDiffMs, loadedDiff) ELSE 0

etaSeconds(remainingBytes, loadedDiff, timeDiffMs) ==
    IF loadedDiff > 0 THEN MathRound(remainingBytes * timeDiffMs, loadedDiff * 1000)
    ELSE IF loadedDiff < 0
         THEN MathRound(0 - remainingBytes * timeDiffMs, (0 - loadedDiff) * 1000)
         ELSE 0

\* onUploadProgress(progressEvent) at time currentTime.
onUploadProgress(p, loaded, currentTime) ==
    LET counted == [p EXCEPT !.events = @ + 1, !.eventLoaded = loaded, !.now = currentTime]
    IN  IF p.total # 0
        THEN LET percentCompleted == MathRound(loaded * 100, p.total)
                 timeDiffMs == currentTime - p.lastTime
                 loadedDiff == loaded - p.lastLoaded
                 remainingBytes == p.total - loaded
             IN  IF timeDiffMs > 0
                 THEN [counted EXCEPT
                         !.display = [shown |-> TRUE, percent |-> percentCompleted,
                                      speedNum |-> loadedDiff * 1000, speedDen |-> timeDiffMs,
                                      eta |-> etaKind(remainingBytes, loadedDiff),
                                      etaSeconds |-> etaSeconds(remainingBytes, loadedDiff, timeDiffMs)],
                         !.samples = @ + 1,
                         !.lastLoaded = loaded,
                         !.lastTime = currentTime]
                 ELSE counted
        ELSE counted

\* ------------------------------------------------------- the history view
\* JavaScript numbers where NaN can occur: NaN compares false with everything.
Num(v) == [nan |-> FALSE, val |-> v]
NaN == [nan |-> TRUE, val |-> 0]
MathMin(a, b) == IF a.nan \/ b.nan THEN NaN ELSE IF a.val < b.val THEN a ELSE b
LessOrEqual(a, b) == ~a.nan /\ ~b.nan /\ a.val <= b.val

DISPLAY_LIMIT == 10

\* String.prototype.trim on a sequence of characters.
RECURSIVE trimStart(_)
trimStart(cs) == IF cs # <<>> /\ Head(cs) = " " THEN trimStart(Tail(cs)) ELSE cs
RECURSIVE trimEnd(_)
trimEnd(cs) ==
    IF cs # <<>> /\ cs[Len(cs)] = " " THEN trimEnd(SubSeq(cs, 1, Len(cs) - 1)) ELSE cs
trim(cs) == trimEnd(trimStart(cs))

\* parseInt(string) without a radix: leading white space and one sign are
\* skipped, a prefix 0x or 0X selects radix 16, and the longest run of
\* digits that follows is the number; what comes after it is ignored.  NaN
\* when there is no digit.
HexDigits == <<"0", "1", "2", "3", "4", "5", "6", "7", "8", "9", "a", "b", "c", "d", "e", "f">>
digitValue(c, radix) ==
    LET at == {n \in 1..radix : HexDigits[n] = c}
    IN  IF at = {} THEN -1 ELSE (CHOOSE n \in at : TRUE) - 1
RECURSIVE digitsValue(_, _, _)
digitsValue(cs, radix, acc) ==
    IF cs = <<>> \/ digitValue(Head(cs), radix) < 0 THEN acc
    ELSE digitsValue(Tail(cs), radix, acc * radix + digitValue(Head(cs), radix))
parseInt(string) ==
    LET s == trimStart(string)
        negative == s # <<>> /\ Head(s) = "-"
        unsigned == IF s # <<>> /\ Head(s) \in {"+", "-"} THEN Tail(s) ELSE s
        hex == Len(unsigned) >= 2 /\ unsigned[1] = "0" /\ unsigned[2] \in {"x", "X"}
        radix == IF hex THEN 16 ELSE 10
        digits == IF hex THEN Tail(Tail(unsigned)) ELSE unsigned
    IN  IF digits = <<>> \/ digitValue(Head(digits), radix) < 0 THEN NaN
        ELSE IF negative THEN Num(0 - digitsValue(digits, radix, 0))
             ELSE Num(digitsValue(digits, radix, 0))

\* What loadHistory() returns to displayHistory: the parsed JSON, a list or
\* not, and [] for an absent or unreadable file.
parsedHistory(hf) ==
    IF hf.kind \in {"list", "notlist"} THEN hf ELSE HistoryDoc("list", <<>>)
\* history.length: undefined (NaN in arithmetic) for JSON that is not a list.
length(history) == IF history.kind = "list" THEN Num(Len(history.entries)) ELSE NaN

\* The entries the loop "for (i = 0; i < displayLimit; i++)" prints.
displayedEntries(history, displayLimit) ==
    IF displayLimit.nan THEN <<>> ELSE SubSeq(history.entries, 1, displayLimit.val)

NoListing ==
    [history |-> HistoryDoc("list", <<>>), displayLimit |-> Num(0), shown |-> <<>>,
     linkIndex |-> NaN]
NoAnswer == <<"<none>">>

\* The replies typed at "Enter number (1-N)".
SelectReplies ==
    {<<"1">>, <<"3">>, <<"1", "0">>, <<"1", "1">>, <<"0">>, <<"-", "1">>, <<>>,
     <<" ", "2", " ">>, <<"a", "b", "c">>, <<"3", "a", "b", "c">>}
MenuReplies == {"1", "2", "3", "4", "x"}
ConfirmReplies == {"y", "Y", "n", ""}

ListLengths == {0, 1, 3, DISPLAY_LIMIT, DISPLAY_LIMIT + 1, HISTORY_LIMIT}
ListedHistories ==
    {HistoryDoc(kind, <<>>) : kind \in {"absent", "corrupt", "notlist"}}
    \cup {HistoryDoc("list", [i \in 1..n |-> StoredEntry(i)]) : n \in ListLengths}

\* deleteHistory that reports success and leaves the file where it is.
deleteHistoryKeepsFile(hf) ==
    IF hf.kind # "absent"
    THEN [file |-> hf, message |-> "HistoryCleared"]
    ELSE [file |-> hf, message |-> "NoHistoryToDelete"]

\* deleteHistory(): the file after it, and what it prints.
deleteHistory(hf) ==
    IF hf.kind # "absent"
    THEN [file |-> HistoryDoc("absent", <<>>), message |-> "HistoryCleared"]
    ELSE [file |-> hf, message |-> "NoHistoryToDelete"]


\* ----------------------------------------------------- the config dialogue
\* The characters of the strings whose parts the dialogue prints.
Characters ==
    ("" :> <<>>)
    @@ ("pdKey" :> <<"p", "d", "K", "e", "y">>)
    @@ ("gfKey" :> <<"g", "f", "K", "e", "y">>)
    @@ ("abcdefgh" :> <<"a", "b", "c", "d", "e", "f", "g", "h">>)
    @@ ("abcdefghijkl" :> <<"a", "b", "c", "d", "e", "f", "g", "h", "i", "j", "k", "l">>)
    @@ ("clientId" :> <<"c", "l", "i", "e", "n", "t", "I", "d">>)
    @@ ("clientSecret" :> <<"c", "l", "i", "e", "n", "t", "S", "e", "c", "r", "e", "t">>)
Ellipsis == <<".", ".", ".">>

\* String.prototype.substring(start, end) on a sequence of characters:
\* both indices are clamped to 0..length and swapped when start > end.
substring(cs, start, end) ==
    LET clamp(n) == IF n < 0 THEN 0 ELSE IF n > Len(cs) THEN Len(cs) ELSE n
        from == IF clamp(start) < clamp(end) THEN clamp(start) ELSE clamp(end)
        to == IF clamp(start) < clamp(end) THEN clamp(end) ELSE clamp(start)
    IN  SubSeq(cs, from + 1, to)

\* configureApiKey, case '1': apiKey.substring(0, 4) + '...' +
\* apiKey.substring(apiKey.length - 4).
maskedKey(key) ==
    LET cs == Characters[key]
    IN  substring(cs, 0, 4) \o Ellipsis \o substring(cs, Len(cs) - 4, Len(cs))
\* configureGoogleDrive, case '1'.
maskedClientId(clientId) == substring(Characters[clientId], 0, 10) \o Ellipsis
maskedSecret(clientSecret) == substring(Characters[clientSecret], 0, 4) \o Ellipsis

\* deleteServiceConfig that deletes the member services as a whole.
deleteEveryService(cfg, svc) ==
    IF cfg.exists /\ cfg.hasServices /\ cfg.services[svc] # NoEntry
    THEN [file |-> [cfg EXCEPT !.services = [pixeldrain |-> NoEntry, gofile |-> NoEntry]],
          message |-> "KeyDeleted"]
    ELSE [file |-> cfg, message |-> "NoKeyToDelete"]

\* deleteServiceConfig(service): the file after it, and what it prints.
deleteServiceConfig(cfg, svc) ==
    IF cfg.exists /\ cfg.hasServices /\ cfg.services[svc] # NoEntry
    THEN [file |-> [cfg EXCEPT !.services[svc] = NoEntry], message |-> "KeyDeleted"]
    ELSE [file |-> cfg, message |-> "NoKeyToDelete"]

\* A prompt that resolves with the reply as typed.
untrimmed(s) == s

\* String.prototype.trim on the replies the model enters.
trimmed(s) == IF s = "  " THEN "" ELSE s

ServiceReplies == {"1", "2", "3", "4"}
KeyReplies == {"", "  ", "abcdefgh"}
ClientReplies == {"", "clientId"}
SecretReplies == {"", "clientSecret"}

\* promptServiceSelection: the service a reply selects, or null.
selectedService(choice) ==
    IF choice = "1" THEN "pixeldrain"
    ELSE IF choice = "2" THEN "gofile"
    ELSE IF choice = "3" THEN "googledrive"
    ELSE NoEntry


\* The OAuth callback listener of startCallbackServer: the HTTP server
\* (open: it accepts requests), the promise, its value once settled, the
\* 120 s timer, and the last request the handler saw.
AUTH_TIMEOUT_MS == 120000
ClockMarks == <<0, 60000, AUTH_TIMEOUT_MS>>
NoRequest == [path |-> NoEntry, code |-> NoEntry, error |-> NoEntry]
NoListener ==
    [open |-> FALSE, promise |-> "none", value |-> NoEntry, timer |-> "none",
     request |-> NoRequest, stale |-> 0]
CallbackRequests ==
    [path : {"/callback", "/favicon.ico"}, code : {NoEntry, "authCode"},
     error : {NoEntry, "access_denied"}]
NoOAuth == [clientId |-> NoEntry, clientSecret |-> NoEntry, existing |-> FALSE, attempts |-> 0]
TokenResponses == {"refreshToken2", NoEntry, "invalid_grant"}
\* The token endpoint authenticates the client: without a client id or a
\* client secret getToken rejects, whatever the code.
tokenResponses(clientId, clientSecret) ==
    IF Truthy(clientId) /\ Truthy(clientSecret) THEN TokenResponses ELSE {"invalid_grant"}

\* ------------------------------------------------------------------- Init
\* The state of the machine outside the upload command that a behaviour of
\* the upload command leaves alone.
otherCommands == <<concurrent, historyView, dialogue>>
NoConcurrentWriters == writers = <<>> /\ schedule = <<>>
NoHistoryView == listing = NoListing /\ typed = NoAnswer
NoDialogue == printed = {} /\ oauth = NoOAuth /\ listener = NoListener /\ clock = 0

GoogleDriveChoices ==
    {GoogleDriveEntry("clientId", "clientSecret", ""),
     GoogleDriveEntry("clientId", "", "refreshToken"),
     GoogleDriveEntry("", "clientSecret", "refreshToken")}

\* No file, the old format, no key, every key, and a googleDrive member
\* that is complete or lacks one of its three values.
ConfiguredAll ==
    ConfigDoc(NoEntry, TRUE, "pdKey", "gfKey",
              GoogleDriveEntry("clientId", "clientSecret", "refreshToken"))
Configs ==
    {NullConfig,
     ConfigDoc("oldKey", FALSE, NoEntry, NoEntry, NoGoogleDrive),
     ConfigDoc(NoEntry, TRUE, NoEntry, NoEntry, NoGoogleDrive),
     ConfiguredAll}
    \cup {ConfigDoc(NoEntry, TRUE, NoEntry, NoEntry, gd) : gd \in GoogleDriveChoices}

StoredHistories ==
    {HistoryDoc(kind, <<>>) : kind \in {"absent", "corrupt", "notlist"}}
    \cup {HistoryDoc("list", [i \in 1..n |-> StoredEntry(i)]) :
            n \in {0} \cup (HISTORY_LIMIT..(HISTORY_LIMIT + HistOver))}

\* The two files as an invocation finds them: every config with no history
\* yet, and every history with every service configured.
StoredFiles ==
    {f \in Configs \X StoredHistories :
        f[1] = ConfiguredAll \/ f[2] = HistoryDoc("absent", <<>>)}

CommandLines == [file : Paths, flag : ServiceFlags]
\* The command lines of the invocations that follow the first: these name
\* their service.
LaterCommandLines == [file : Paths, flag : {"gf", "pd", "gd"}]

NoLink == <<>>

\* The state of a process that has just parsed its command line.
Fresh ==
    /\ pc = "start"
    /\ service = NoEntry /\ apiKey = NoEntry /\ answer = NoEntry /\ adapters = {}
    /\ requests = <<>> /\ driveCalls = <<>> /\ response = NoBody /\ caught = NoEntry
    /\ sigintHandler = FALSE /\ aborted = FALSE /\ sigintAt = NoEntry
    /\ progress = startProgress(0, 0)
    /\ output = {} /\ shownLink = NoLink
    /\ histWrites = 0
    /\ exitCode = -1 /\ exitBy = NoEntry

Init ==
    /\ \E files \in StoredFiles : config = files[1] /\ historyFile = files[2]
    /\ clipboard = NoLink
    /\ inv = 1
    /\ args \in CommandLines
    /\ Fresh
    /\ NoConcurrentWriters
    /\ NoHistoryView
    /\ NoDialogue

\* ---------------------------------------------------------------- actions
\* process.exit(code), or the end of the program (by = "end").
Terminate(code, by, messages) ==
    /\ pc' = "exited"
    /\ exitCode' = code
    /\ exitBy' = by
    /\ output' = output \cup messages

\* StartUpload whose adapter does not look whether the file exists.
StartUploadNoFileCheck(svc, key) ==
    IF missingRequiredKey(svc, key)
    THEN /\ Terminate(1, "exit", {"NoApiKey"})
         /\ UNCHANGED <<adapters, requests, sigintHandler, progress>>
    ELSE /\ adapters' = adapters \cup {svc}
         /\ requests' = Append(requests, uploadRequest(svc, key, args.file))
         /\ sigintHandler' = cancellable(svc)
         /\ \E total \in {0, MaxTotal} : progress' = startProgress(0, total)
         /\ pc' = "request"
         /\ UNCHANGED <<output, ending>>

\* uploadFile from the key check on, and the adapter up to its request.
StartUpload(svc, key) ==
    IF missingRequiredKey(svc, key)
    THEN /\ Terminate(1, "exit", {"NoApiKey"})
         /\ UNCHANGED <<adapters, requests, sigintHandler, progress>>
    ELSE /\ adapters' = adapters \cup {svc}
         /\ IF ~existsSync(args.file)
            THEN /\ Terminate(1, "exit", {"FileNotFound"})
                 /\ UNCHANGED <<requests, sigintHandler, progress>>
            ELSE /\ requests' = Append(requests, uploadRequest(svc, key, args.file))
                 /\ sigintHandler' = cancellable(svc)
                 /\ \E total \in {0, MaxTotal} : progress' = startProgress(0, total)
                 /\ pc' = "request"
                 /\ UNCHANGED <<output, ending>>

\* uploadToGoogleDrive up to drive.files.create.
StartGoogleDrive ==
    /\ adapters' = adapters \cup {"googledrive"}
    /\ IF ~existsSync(args.file)
       THEN Terminate(1, "exit", {"FileNotFound"}) /\ UNCHANGED driveCalls
       ELSE IF ~getGoogleDriveClient(config).ok
            THEN Terminate(1, "exit", {"NotConfigured"}) /\ UNCHANGED driveCalls
            ELSE /\ driveCalls' = <<driveCall(driveSequence[1])>>
                 /\ pc' = driveSequence[1]
                 /\ UNCHANGED <<output, ending>>
    /\ UNCHANGED <<requests, sigintHandler, progress>>

\* uploadFile(options.send, program.args[0]) up to its first suspension.
UploadFile ==
    /\ UNCHANGED <<otherCommands, answer>>
    /\ pc = "start"
    /\ LET svc == routeService(args.flag)
           key == getServiceCredentials(config, svc).apiKey
       IN  /\ service' = svc
           /\ IF svc = "googledrive"
              THEN apiKey' = apiKey /\ config' = config /\ StartGoogleDrive
              ELSE /\ apiKey' = key
                   /\ config' = migratedConfig(config, svc)
                   /\ IF needsConfirmation(svc, args.file)
                      THEN /\ pc' = "confirm"
                           /\ output' = output \cup {"SizeWarning"}
                           /\ UNCHANGED <<adapters, requests, driveCalls, sigintHandler,
                                          progress, ending>>
                      ELSE StartUpload(svc, key) /\ UNCHANGED driveCalls
    /\ UNCHANGED <<historyFile, clipboard, inv, args, response, caught, aborted, sigintAt,
                   shownLink, histWrites>>

\* The reply to "Continue upload anyway? (y/N)".
ConfirmAnswer ==
    /\ UNCHANGED otherCommands
    /\ pc = "confirm"
    /\ \E ans \in Answers :
          /\ answer' = ans
          /\ IF ~confirms(ans)
             THEN /\ Terminate(0, "exit", {"Declined"})
                  /\ UNCHANGED <<adapters, requests, sigintHandler, progress>>
             ELSE StartUpload(service, apiKey)
    /\ UNCHANGED <<persistent, inv, args, service, apiKey, driveCalls, response, caught,
                   aborted, sigintAt, shownLink, histWrites>>

\* A progress event of the request in flight (uploadToPixeldrain and
\* uploadToGofile pass onUploadProgress to axios.post).
ProgressEvent ==
    /\ UNCHANGED <<otherCommands, answer>>
    /\ pc = "request"
    /\ progress.events < MaxCallbacks
    /\ \E loaded \in progress.eventLoaded..progress.total, step \in TimeSteps :
          progress' = onUploadProgress(progress, loaded, progress.now + step)
    /\ UNCHANGED <<persistent, inv, args, pc, locals, network, caught, signals, console,
                   histWrites, ending>>

\* The adapter after its last await resolved with a result: saveHistory,
\* the printed link, and the start of clipboardy.write.
Succeed(svc, result) ==
    LET saved == saveHistory(historyFile, historyEntry(svc, inv, args.file, result))
    IN  IF saved.threw
        THEN /\ Terminate(1, "exit", {"UploadComplete", "UploadFailed", "ErrorMessage"})
             /\ caught' = "TypeError"
             /\ UNCHANGED <<historyFile, histWrites, shownLink>>
        ELSE /\ historyFile' = saved.file
             /\ histWrites' = histWrites + 1
             /\ shownLink' = result.downloadLink
             /\ output' = output \cup {"UploadComplete", "UploadSuccessful"}
             /\ pc' = "clipboard"
             /\ UNCHANGED <<caught, ending>>

\* failureMessages that gives the hint for status 401 only.
failureMessagesNoHint(svc, error) ==
    {"UploadFailed"} \cup
    IF svc = "googledrive"
    THEN IF error = "401" THEN {"AuthenticationError", "Reconfigure"}
         ELSE IF error = "ENOTFOUND" THEN {"NetworkError"}
         ELSE {"ErrorMessage"}
    ELSE IF error = "401" THEN {"ServerError", "Reconfigure"}
         ELSE IF error \in {"403", "500"} THEN {"ServerError", "ServerMessage"}
         ELSE IF error = "ENOTFOUND" THEN {"NetworkError"}
         ELSE {"ErrorMessage"}

\* What the catch block of an adapter prints for an error.
failureMessages(svc, error) ==
    {"UploadFailed"} \cup
    IF svc = "googledrive"
    THEN IF error \in {"401", "403"} THEN {"AuthenticationError", "Reconfigure"}
         ELSE IF error = "ENOTFOUND" THEN {"NetworkError"}
         ELSE {"ErrorMessage"}
    ELSE IF error \in {"401", "403"} THEN {"ServerError", "Reconfigure"}
         ELSE IF error = "500" THEN {"ServerError", "ServerMessage"}
         ELSE IF error = "ENOTFOUND" THEN {"NetworkError"}
         ELSE {"ErrorMessage"}

Errors == {"401", "403", "500", "ENOTFOUND", "other"}

\* A catch block that starts the upload again instead of exiting.
catchAndRetry(svc, error) ==
    /\ pc' = "start"
    /\ caught' = error
    /\ output' = output \cup failureMessages(svc, error)
    /\ UNCHANGED ending

\* The catch block of an adapter: the messages, then process.exit(1).
catchUploadError(svc, error) ==
    /\ caught' = error
    /\ Terminate(1, "exit", failureMessages(svc, error))

\* UploadResponse without process.removeListener('SIGINT', handleCancel).
UploadResponseKeepsHandler ==
    /\ UNCHANGED <<otherCommands, answer>>
    /\ pc = "request"
    /\ sigintHandler' = sigintHandler
    /\ \E data \in IF service = "pixeldrain" THEN PixeldrainResponses ELSE GofileResponses :
          /\ response' = data
          /\ IF service = "pixeldrain"
             THEN Succeed("pixeldrain", pixeldrainResult(data))
             ELSE IF data.hasData
                  THEN Succeed("gofile", gofileResult(data))
                  ELSE /\ Terminate(1, "exit", {"UploadComplete", "UploadFailed", "ErrorMessage"})
                       /\ caught' = "TypeError"
                       /\ UNCHANGED <<historyFile, histWrites, shownLink>>
    /\ progress' = startProgress(0, 0)
    /\ UNCHANGED <<config, clipboard, inv, args, locals, requests, driveCalls, aborted, sigintAt>>

\* axios.post resolved: the response of Pixeldrain or Gofile.  Reading
\* response.data.data.fileId throws when the body has no member data.
UploadResponse ==
    /\ UNCHANGED <<otherCommands, answer>>
    /\ pc = "request"
    /\ sigintHandler' = FALSE
    /\ \E data \in IF service = "pixeldrain" THEN PixeldrainResponses ELSE GofileResponses :
          /\ response' = data
          /\ IF service = "pixeldrain"
             THEN Succeed("pixeldrain", pixeldrainResult(data))
             ELSE IF data.hasData
                  THEN Succeed("gofile", gofileResult(data))
                  ELSE /\ Terminate(1, "exit", {"UploadComplete", "UploadFailed", "ErrorMessage"})
                       /\ caught' = "TypeError"
                       /\ UNCHANGED <<historyFile, histWrites, shownLink>>
    /\ progress' = startProgress(0, 0)
    /\ UNCHANGED <<config, clipboard, inv, args, locals, requests, driveCalls, aborted, sigintAt>>

\* axios.post rejected: the catch block of the adapter.
UploadError ==
    /\ UNCHANGED <<otherCommands, answer>>
    /\ pc = "request"
    /\ \E error \in Errors : catchUploadError(service, error)
    /\ progress' = startProgress(0, 0)
    /\ UNCHANGED <<persistent, inv, args, locals, network, signals, shownLink, histWrites>>

\* A Drive API call resolved: the next call of the sequence, or the result
\* read from the body of files.get.
DriveResponse ==
    /\ UNCHANGED <<otherCommands, answer>>
    /\ pc \in DriveApis
    /\ IF Len(driveCalls) < Len(driveSequence)
       THEN /\ driveCalls' = Append(driveCalls, driveCall(driveSequence[Len(driveCalls) + 1]))
            /\ pc' = driveSequence[Len(driveCalls) + 1]
            /\ UNCHANGED <<response, caught, historyFile, histWrites, console, ending>>
       ELSE /\ \E data \in DriveFiles :
                  response' = data /\ Succeed("googledrive", googleDriveResult(data))
            /\ UNCHANGED driveCalls
    /\ UNCHANGED <<config, clipboard, inv, args, locals, requests, signals, progress>>

\* A Drive API call rejected: the catch block of uploadToGoogleDrive.
DriveError ==
    /\ UNCHANGED <<otherCommands, answer>>
    /\ pc \in DriveApis
    /\ \E error \in Errors : catchUploadError("googledrive", error)
    /\ UNCHANGED <<persistent, inv, args, locals, network, signals, progress, shownLink,
                   histWrites>>

\* ClipboardResult whose failed write reaches the catch block of the adapter.
ClipboardResultFailing ==
    /\ UNCHANGED <<otherCommands, answer>>
    /\ pc = "clipboard"
    /\ \E written \in BOOLEAN :
          IF written
          THEN clipboard' = shownLink /\ Terminate(0, "end", {"LinkCopied"})
          ELSE clipboard' = clipboard /\ Terminate(1, "exit", {"UploadFailed", "ErrorMessage"})
    /\ UNCHANGED <<config, historyFile, inv, args, locals, network, caught, signals,
                   progress, shownLink, histWrites>>

\* clipboardy.write settled; the adapter returns and the program ends.
ClipboardResult ==
    /\ UNCHANGED <<otherCommands, answer>>
    /\ pc = "clipboard"
    /\ \E written \in BOOLEAN :
          IF written
          THEN clipboard' = shownLink /\ Terminate(0, "end", {"LinkCopied"})
          ELSE clipboard' = clipboard /\ Terminate(0, "end", {"ClipboardWarning"})
    /\ UNCHANGED <<config, historyFile, inv, args, locals, network, caught, signals,
                   progress, shownLink, histWrites>>

\* Sigint whose handler aborts the request without leaving: the rejected
\* axios.post then reaches the catch block of the adapter.
SigintThenCatch ==
    /\ UNCHANGED <<otherCommands, answer>>
    /\ pc # "exited"
    /\ sigintAt' = pc
    /\ IF sigintHandler
       THEN /\ aborted' = TRUE
            /\ Terminate(1, "exit", {"CancelledByUser", "UploadFailed", "ErrorMessage"})
       ELSE aborted' = aborted /\ Terminate(-1, "signal", {})
    /\ progress' = startProgress(0, 0)
    /\ UNCHANGED <<persistent, inv, args, locals, network, caught, sigintHandler, shownLink,
                   histWrites>>

\* SIGINT reaches the process: handleCancel when it is registered, else the
\* default action of the signal, which kills the process.
Sigint ==
    /\ UNCHANGED <<otherCommands, answer>>
    /\ pc # "exited"
    /\ sigintAt' = pc
    /\ IF sigintHandler
       THEN aborted' = TRUE /\ Terminate(0, "exit", {"CancelledByUser"})
       ELSE aborted' = aborted /\ Terminate(-1, "signal", {})
    /\ progress' = startProgress(0, 0)
    /\ UNCHANGED <<persistent, inv, args, locals, network, caught, sigintHandler, shownLink,
                   histWrites>>

\* The user runs the tool again.
NextInvocation ==
    /\ UNCHANGED otherCommands
    /\ pc = "exited"
    /\ inv < MaxInvocations
    /\ inv' = inv + 1
    /\ args' \in LaterCommandLines
    /\ pc' = "start"
    /\ service' = NoEntry /\ apiKey' = NoEntry /\ answer' = NoEntry /\ adapters' = {}
    /\ requests' = <<>> /\ driveCalls' = <<>> /\ response' = NoBody /\ caught' = NoEntry
    /\ sigintHandler' = FALSE /\ aborted' = FALSE /\ sigintAt' = NoEntry
    /\ progress' = startProgress(0, 0)
    /\ output' = {} /\ shownLink' = NoLink
    /\ histWrites' = 0
    /\ exitCode' = -1 /\ exitBy' = NoEntry
    /\ clipboard' = NoLink
    /\ UNCHANGED <<config, historyFile>>

Next ==
    \/ UploadFile
    \/ ConfirmAnswer
    \/ ProgressEvent
    \/ UploadResponse
    \/ UploadError
    \/ DriveResponse
    \/ DriveError
    \/ ClipboardResult
    \/ Sigint
    \/ NextInvocation

Spec == Init /\ [][Next]_vars

TypeOK ==
    /\ pc \in {"start", "confirm", "request", "clipboard", "exited"}
              \cup DriveApis
    /\ exitCode \in {-1, 0, 1}
    /\ inv \in 1..MaxInvocations

\* ------------------------------------------- two invocations at one time
\* saveHistory and saveConfig read the whole file (loadHistory, loadConfig),
\* change the parsed document and write the whole file back.  Inside one
\* process that is one synchronous run; between two processes the read and
\* the write of one can fall on either side of the read and the write of the
\* other.  Each writer is one invocation at the point where it calls
\* saveHistory (the end of an upload) or saveConfig (the config dialogue).
Writers == {1, 2}

HistoryUpdate(i) ==
    [call |-> "saveHistory",
     entry |-> HistoryEntry("gofile", i, "atLimit", formatFileSize(statSize("atLimit")),
                            ToString(i), <<"https://gofile.io/d/", ToString(i)>>)]
ConfigUpdate(i, serviceType) ==
    [call |-> "saveConfig", serviceType |-> serviceType,
     credentials |-> IF serviceType = "googleDrive"
                     THEN [clientId |-> "clientId", clientSecret |-> "clientSecret",
                           refreshToken |-> "refreshToken" \o ToString(i)]
                     ELSE [apiKey |-> "apiKey" \o ToString(i)]]
Updates(i) ==
    {HistoryUpdate(i)}
    \cup {ConfigUpdate(i, t) : t \in {"pixeldrain", "gofile", "googleDrive"}}

NoDocument == [read |-> FALSE]
ReadDocument(doc) == [read |-> TRUE, doc |-> doc]

\* No upload command runs in the behaviours of the other commands.
NoUpload ==
    /\ clipboard = NoLink
    /\ inv = 1
    /\ args = [file |-> "missing", flag |-> NoEntry]
    /\ Fresh

upload == <<clipboard, inv, args, pc, service, apiKey, answer, adapters, requests, driveCalls,
            response, caught, sigintHandler, aborted, sigintAt, progress, output,
            shownLink, histWrites, exitCode, exitBy>>
outsideConcurrent == <<upload, historyView, dialogue>>

InitConcurrent ==
    /\ \E files \in StoredFiles : config = files[1] /\ historyFile = files[2]
    /\ writers \in [Writers -> UNION {[update : Updates(i), pc : {"ready"}, loaded : {NoDocument}] :
                                         i \in Writers}]
    /\ \A i \in Writers : writers[i].update \in Updates(i)
    /\ schedule = <<>>
    /\ NoUpload
    /\ NoHistoryView
    /\ NoDialogue

\* loadHistory() in saveHistory, loadConfig() in saveConfig: the read.
LoadStep(i) ==
    /\ writers[i].pc = "ready"
    /\ writers' = [writers EXCEPT
                     ![i].pc = "loaded",
                     ![i].loaded = ReadDocument(IF writers[i].update.call = "saveHistory"
                                                THEN historyFile ELSE config)]
    /\ schedule' = Append(schedule, [step |-> "load", writer |-> i])
    /\ UNCHANGED <<config, historyFile, outsideConcurrent>>

\* WriteStep that reads the file again at the moment it writes.
WriteStepReload(i) ==
    /\ writers[i].pc = "loaded"
    /\ LET u == writers[i].update
       IN  IF u.call = "saveHistory"
           THEN LET saved == saveHistory(historyFile, u.entry)
                IN  /\ historyFile' = saved.file
                    /\ writers' = [writers EXCEPT
                                     ![i].pc = IF saved.threw THEN "threw" ELSE "written"]
                    /\ schedule' = Append(schedule, [step |-> IF saved.threw THEN "throw" ELSE "write",
                                                     writer |-> i])
                    /\ UNCHANGED config
           ELSE /\ config' = saveConfig(config, u.serviceType, u.credentials)
                /\ writers' = [writers EXCEPT ![i].pc = "written"]
                /\ schedule' = Append(schedule, [step |-> "write", writer |-> i])
                /\ UNCHANGED historyFile
    /\ UNCHANGED outsideConcurrent

\* The rest of saveHistory / saveConfig: the change of the document that was
\* read, and fs.writeFileSync of the whole document.
WriteStep(i) ==
    /\ writers[i].pc = "loaded"
    /\ LET u == writers[i].update
           doc == writers[i].loaded.doc
       IN  IF u.call = "saveHistory"
           THEN LET saved == saveHistory(doc, u.entry)
                IN  /\ historyFile' = IF saved.threw THEN historyFile ELSE saved.file
                    /\ writers' = [writers EXCEPT
                                     ![i].pc = IF saved.threw THEN "threw" ELSE "written"]
                    /\ schedule' = Append(schedule, [step |-> IF saved.threw THEN "throw" ELSE "write",
                                                     writer |-> i])
                    /\ UNCHANGED config
           ELSE /\ config' = saveConfig(doc, u.serviceType, u.credentials)
                /\ writers' = [writers EXCEPT ![i].pc = "written"]
                /\ schedule' = Append(schedule, [step |-> "write", writer |-> i])
                /\ UNCHANGED historyFile
    /\ UNCHANGED outsideConcurrent

NextConcurrent ==
    \/ \E i \in Writers : LoadStep(i)
    \/ \E i \in Writers : WriteStep(i)

SpecConcurrent == InitConcurrent /\ [][NextConcurrent]_vars

\* ------------------------------------------------------ the command pld -ls
\* What displayHistory does not touch: the locals of the upload command and
\* the writers.
outsideClear ==
    <<inv, args, service, apiKey, adapters, requests, driveCalls, response,
      caught, sigintHandler, aborted, sigintAt, progress, shownLink, histWrites, concurrent,
      dialogue>>
outsideHistory == <<outsideClear, answer>>

InitHistory ==
    /\ config \in {NullConfig}
    /\ historyFile \in ListedHistories
    /\ clipboard = NoLink
    /\ inv = 1
    /\ args = [file |-> NoEntry, flag |-> NoEntry]
    /\ Fresh
    /\ NoConcurrentWriters
    /\ NoHistoryView
    /\ NoDialogue

\* displayHistory() up to the first menu: the listing of the first entries.
DisplayHistory ==
    /\ pc = "start"
    /\ LET history == parsedHistory(historyFile)
           displayLimit == MathMin(Num(DISPLAY_LIMIT), length(history))
       IN  IF length(history) = Num(0)
           THEN /\ Terminate(0, "end", {"NoHistory"})
                /\ UNCHANGED listing
           ELSE /\ listing' = [history |-> history, displayLimit |-> displayLimit,
                               shown |-> displayedEntries(history, displayLimit),
                               linkIndex |-> NaN]
                /\ output' = output \cup
                      (IF historyFile.kind = "corrupt" THEN {"HistoryWarning"} ELSE {})
                      \cup {"UploadHistory"}
                /\ pc' = "list.menu"
                /\ UNCHANGED ending
    /\ UNCHANGED <<persistent, typed, outsideHistory>>

\* The reply to "Select an option (1-3)".
HistoryMenu ==
    /\ pc = "list.menu"
    /\ \E choice \in MenuReplies :
          IF choice = "1" THEN pc' = "list.select" /\ UNCHANGED <<output, ending>>
          ELSE IF choice = "2" THEN pc' = "list.confirm" /\ UNCHANGED <<output, ending>>
          ELSE IF choice = "3" THEN Terminate(0, "end", {"ExitingHistory"})
          ELSE /\ output' = output \cup {"InvalidOption"}
               /\ UNCHANGED <<pc, ending>>
    /\ UNCHANGED <<persistent, listing, typed, outsideHistory>>

\* The reply to promptSelectLink(displayLimit) and the range check.
SelectLink ==
    /\ pc = "list.select"
    /\ \E reply \in SelectReplies :
          LET linkIndex == parseInt(trim(reply))
          IN  /\ typed' = reply
              /\ listing' = [listing EXCEPT !.linkIndex = linkIndex]
              /\ IF LessOrEqual(Num(1), linkIndex) /\ LessOrEqual(linkIndex, listing.displayLimit)
                 THEN pc' = "list.copy" /\ UNCHANGED output
                 ELSE pc' = "list.menu" /\ output' = output \cup {"InvalidSelection"}
    /\ UNCHANGED <<persistent, ending, outsideHistory>>

\* clipboardy.write(history[linkIndex - 1].downloadLink) settled.
CopyLink ==
    /\ pc = "list.copy"
    /\ \E written \in BOOLEAN :
          IF written
          THEN /\ clipboard' = listing.history.entries[listing.linkIndex.val].downloadLink
               /\ output' = output \cup {"LinkCopied"}
          ELSE /\ clipboard' = clipboard
               /\ output' = output \cup {"FailedToCopy"}
    /\ pc' = "list.menu"
    /\ UNCHANGED <<config, historyFile, listing, typed, ending, outsideHistory>>

\* The reply to "Are you sure you want to clear all history?".
ConfirmClear ==
    /\ pc = "list.confirm"
    /\ \E reply \in ConfirmReplies :
          /\ answer' = reply
          /\ IF toLowerCase(reply) = "y"
             THEN LET deleted == deleteHistory(historyFile)
                  IN  /\ historyFile' = deleted.file
                      /\ Terminate(0, "end", {deleted.message})
             ELSE /\ output' = output \cup {"ClearCancelled"}
                  /\ pc' = "list.menu"
                  /\ UNCHANGED <<historyFile, ending>>
    /\ UNCHANGED <<config, clipboard, listing, typed, outsideClear>>

\* Another invocation of pld -ls clears the history while this one shows
\* its menu: deleteHistory() of that process unlinks the file.
HistoryRemoved ==
    /\ pc \in {"list.menu", "list.select", "list.copy", "list.confirm"}
    /\ historyFile.kind # "absent"
    /\ historyFile' = deleteHistory(historyFile).file
    /\ UNCHANGED <<config, clipboard, pc, output, ending, listing, typed, outsideHistory>>

NextHistory ==
    \/ DisplayHistory
    \/ HistoryMenu
    \/ SelectLink
    \/ CopyLink
    \/ ConfirmClear

SpecHistory == InitHistory /\ [][NextHistory]_vars

\* pld -ls on a machine where the history can be cleared under it.
NextHistoryShared ==
    \/ DisplayHistory
    \/ HistoryMenu
    \/ SelectLink
    \/ CopyLink
    \/ ConfirmClear
    \/ HistoryRemoved

SpecHistoryShared == InitHistory /\ [][NextHistoryShared]_vars

\* ------------------------------------------------- the command pld --config
\* What configureApiKey does not touch, and what it leaves alone outside
\* promptApiKey.
outsidePrompt ==
    <<historyFile, clipboard, inv, args, adapters, requests, driveCalls, response, caught,
      sigintHandler, aborted, sigintAt, progress, shownLink, histWrites, concurrent,
      historyView>>
outsideConfig == <<outsidePrompt, answer>>

\* The configs the dialogue starts from: those of the upload command and one
\* with a long and a short key.
DialogueConfigs ==
    Configs \cup {ConfigDoc(NoEntry, TRUE, "abcdefghijkl", "abcdefgh", NoGoogleDrive)}

InitConfig ==
    /\ config \in DialogueConfigs
    /\ historyFile = HistoryDoc("absent", <<>>)
    /\ clipboard = NoLink
    /\ inv = 1
    /\ args = [file |-> NoEntry, flag |-> NoEntry]
    /\ Fresh
    /\ NoConcurrentWriters
    /\ NoHistoryView
    /\ NoDialogue

\* configureGoogleDrive returns to the command line dispatch: the program
\* ends once nothing is left on the event loop.
Return(messages) ==
    pc' = "returned" /\ output' = output \cup messages /\ UNCHANGED ending

\* configureApiKey up to its second prompt; configureGoogleDrive up to its
\* first.
SelectService ==
    /\ pc = "start"
    /\ \E choice \in ServiceReplies :
          LET svc == selectedService(choice)
              key == getServiceCredentials(config, svc).apiKey
              existingCredentials == getGoogleDriveCredentials(config)
          IN  IF svc = NoEntry
              THEN /\ Terminate(0, "end", {"ExitingConfiguration"})
                   /\ UNCHANGED <<config, service, apiKey, oauth>>
              ELSE IF svc = "googledrive"
              THEN /\ service' = svc
                   /\ IF existingCredentials.present /\ Truthy(existingCredentials.refreshToken)
                      THEN /\ pc' = "gd.menu"
                           /\ oauth' = [clientId |-> existingCredentials.clientId,
                                        clientSecret |-> existingCredentials.clientSecret,
                                        existing |-> TRUE, attempts |-> 0]
                           /\ UNCHANGED output
                      ELSE /\ pc' = "gd.clientId"
                           /\ output' = output \cup {"GoogleDriveSetup"}
                           /\ UNCHANGED oauth
                   /\ UNCHANGED <<config, apiKey, ending>>
              ELSE /\ service' = svc
                   /\ apiKey' = key
                   /\ config' = migratedConfig(config, svc)
                   /\ pc' = IF Truthy(key) THEN "config.menu" ELSE "config.key"
                   /\ UNCHANGED <<output, ending, oauth>>
    /\ UNCHANGED <<printed, listener, clock, outsideConfig>>

\* The first key of a service: the reply to promptApiKey.
EnterApiKey ==
    /\ pc = "config.key"
    /\ \E reply \in KeyReplies :
          LET newApiKey == trimmed(reply)
          IN  /\ answer' = reply
              /\ IF ~Truthy(newApiKey)
                 THEN Terminate(1, "exit", {"EmptyKey"}) /\ UNCHANGED config
                 ELSE /\ config' = saveConfig(config, service, [apiKey |-> newApiKey])
                      /\ Terminate(0, "end", {"KeySaved"})
    /\ UNCHANGED <<service, apiKey, dialogue, outsidePrompt>>

\* The reply to promptConfigMenu.
ConfigMenu ==
    /\ pc = "config.menu"
    /\ \E choice \in MenuReplies :
          IF choice = "1"
          THEN /\ printed' = printed \cup {[label |-> "CurrentApiKey", text |-> maskedKey(apiKey)]}
               /\ UNCHANGED <<pc, output, ending>>
          ELSE /\ UNCHANGED printed
               /\ IF choice = "2" THEN pc' = "config.change" /\ UNCHANGED <<output, ending>>
                  ELSE IF choice = "3" THEN pc' = "config.confirm" /\ UNCHANGED <<output, ending>>
                  ELSE IF choice = "4" THEN Terminate(0, "end", {"ExitingConfiguration"})
                  ELSE output' = output \cup {"InvalidOption"} /\ UNCHANGED <<pc, ending>>
    /\ UNCHANGED <<config, service, apiKey, oauth, listener, clock, outsideConfig>>

\* 'Change API key': the reply to promptApiKey.
ChangeApiKey ==
    /\ pc = "config.change"
    /\ \E reply \in KeyReplies :
          LET newKey == trimmed(reply)
          IN  /\ answer' = reply
              /\ IF ~Truthy(newKey)
                 THEN /\ output' = output \cup {"EmptyKey"}
                      /\ pc' = "config.menu"
                      /\ UNCHANGED <<config, ending>>
                 ELSE /\ config' = saveConfig(config, service, [apiKey |-> newKey])
                      /\ Terminate(0, "end", {"KeyUpdated"})
    /\ UNCHANGED <<service, apiKey, dialogue, outsidePrompt>>

\* 'Delete API key': the reply to promptConfirmDelete.
ConfirmDelete ==
    /\ pc = "config.confirm"
    /\ \E reply \in ConfirmReplies :
          IF toLowerCase(reply) = "y"
          THEN LET deleted == deleteServiceConfig(config, service)
               IN  /\ config' = deleted.file
                   /\ Terminate(0, "end", {deleted.message})
          ELSE /\ output' = output \cup {"DeletionCancelled"}
               /\ pc' = "config.menu"
               /\ UNCHANGED <<config, ending>>
    /\ UNCHANGED <<service, apiKey, dialogue, outsideConfig>>

\* configureGoogleDrive, already configured: the reply to its menu.
GoogleDriveMenu ==
    /\ pc = "gd.menu"
    /\ \/ /\ printed' = printed \cup
                {[label |-> "ClientId", text |-> maskedClientId(oauth.clientId)],
                 [label |-> "ClientSecret", text |-> maskedSecret(oauth.clientSecret)]}
          /\ UNCHANGED <<pc, output, ending, oauth>>
       \/ /\ oauth.attempts < MaxAttempts
          /\ oauth' = [oauth EXCEPT !.attempts = @ + 1]
          /\ output' = output \cup {"OpeningBrowser"}
          /\ pc' = "oauth.open"
          /\ UNCHANGED <<printed, ending>>
       \/ /\ pc' = "gd.confirm"
          /\ UNCHANGED <<printed, output, ending, oauth>>
       \/ /\ Return({"ExitingConfiguration"})
          /\ UNCHANGED <<printed, oauth>>
       \/ /\ output' = output \cup {"InvalidOption"}
          /\ UNCHANGED <<pc, printed, ending, oauth>>
    /\ UNCHANGED <<config, service, apiKey, listener, clock, outsideConfig>>

\* 'Delete configuration' of Google Drive: the reply to promptConfirmDelete.
ConfirmDeleteGoogleDrive ==
    /\ pc = "gd.confirm"
    /\ \E reply \in ConfirmReplies :
          IF toLowerCase(reply) = "y"
          THEN IF config.exists /\ config.googleDrive.present
               THEN /\ config' = [config EXCEPT !.googleDrive = NoGoogleDrive]
                    /\ Return({"GoogleDriveDeleted"})
               ELSE pc' = "gd.menu" /\ UNCHANGED <<config, output, ending>>
          ELSE /\ output' = output \cup {"DeletionCancelled"}
               /\ pc' = "gd.menu"
               /\ UNCHANGED <<config, ending>>
    /\ UNCHANGED <<service, apiKey, dialogue, outsideConfig>>

\* configureGoogleDrive, new configuration: the Client ID.
EnterClientId ==
    /\ pc = "gd.clientId"
    /\ \E reply \in ClientReplies :
          IF ~Truthy(trimmed(reply))
          THEN Return({"EmptyClientId"}) /\ UNCHANGED oauth
          ELSE /\ oauth' = [oauth EXCEPT !.clientId = trimmed(reply)]
               /\ pc' = "gd.clientSecret"
               /\ UNCHANGED <<output, ending>>
    /\ UNCHANGED <<config, service, apiKey, printed, listener, clock, outsideConfig>>

\* The Client Secret, and authenticateGoogleDrive up to "await open(authUrl)".
EnterClientSecret ==
    /\ pc = "gd.clientSecret"
    /\ \E reply \in SecretReplies :
          IF ~Truthy(trimmed(reply))
          THEN Return({"EmptyClientSecret"}) /\ UNCHANGED oauth
          ELSE /\ oauth' = [oauth EXCEPT !.clientSecret = trimmed(reply), !.attempts = @ + 1]
               /\ output' = output \cup {"OpeningBrowser"}
               /\ pc' = "oauth.open"
               /\ UNCHANGED ending
    /\ UNCHANGED <<config, service, apiKey, printed, listener, clock, outsideConfig>>

\* settle that lets a later resolve or reject replace the outcome.
settleAgain(l, outcome, value) == [l EXCEPT !.promise = outcome, !.value = value]

\* resolve / reject of the promise: a settled promise stays as it is.
settle(l, outcome, value) ==
    IF l.promise = "pending" THEN [l EXCEPT !.promise = outcome, !.value = value] ELSE l

\* open(authUrl) settled; startCallbackServer(): the server, listen(3000)
\* and the timer.  bound = FALSE: port 3000 is taken, the server emits
\* 'error' and the promise is rejected with it.
BrowserOpened ==
    /\ pc = "oauth.open"
    /\ \E opened \in BOOLEAN, bound \in BOOLEAN :
          /\ output' = output \cup (IF opened THEN {} ELSE {"CouldNotOpenBrowser"})
                              \cup {"WaitingForAuthorization"}
          /\ listener' =
                [open |-> bound,
                 promise |-> IF bound THEN "pending" ELSE "rejected",
                 value |-> IF bound THEN NoEntry ELSE "EADDRINUSE",
                 timer |-> "armed",
                 request |-> NoRequest,
                 stale |-> listener.stale + IF listener.timer = "armed" THEN 1 ELSE 0]
    /\ clock' = ClockMarks[1]
    /\ pc' = "oauth.wait"
    /\ UNCHANGED <<config, service, apiKey, printed, oauth, ending, outsideConfig>>

\* The request handler of the callback server.
CallbackRequest ==
    /\ pc # "exited"
    /\ listener.open
    /\ \E req \in CallbackRequests :
          listener' =
             LET seen == [listener EXCEPT !.request = req]
             IN  IF req.path = "/callback"
                 THEN IF Truthy(req.error)
                      THEN settle([seen EXCEPT !.open = FALSE], "rejected", req.error)
                      ELSE IF Truthy(req.code)
                           THEN settle([seen EXCEPT !.open = FALSE], "resolved", req.code)
                           ELSE seen
                 ELSE seen
    /\ UNCHANGED <<config, pc, service, apiKey, output, ending, printed, oauth, clock,
                   outsideConfig>>

\* Time passes while the timer of the listener runs.
Tick ==
    /\ pc # "exited"
    /\ listener.timer = "armed"
    /\ \E n \in 1..(Len(ClockMarks) - 1) : clock = ClockMarks[n] /\ clock' = ClockMarks[n + 1]
    /\ UNCHANGED <<config, pc, service, apiKey, output, ending, printed, oauth, listener,
                   outsideConfig>>

\* TimerFires without server.close().
TimerFiresLeavesOpen ==
    /\ pc # "exited"
    /\ listener.timer = "armed"
    /\ clock = AUTH_TIMEOUT_MS
    /\ listener' = settle([listener EXCEPT !.timer = "fired"],
                          "rejected", "Authorization timeout")
    /\ UNCHANGED <<config, pc, service, apiKey, output, ending, printed, oauth, clock,
                   outsideConfig>>

\* The callback of setTimeout(..., 120000): server.close() and reject.
TimerFires ==
    /\ pc # "exited"
    /\ listener.timer = "armed"
    /\ clock = AUTH_TIMEOUT_MS
    /\ listener' = settle([listener EXCEPT !.open = FALSE, !.timer = "fired"],
                          "rejected", "Authorization timeout")
    /\ UNCHANGED <<config, pc, service, apiKey, output, ending, printed, oauth, clock,
                   outsideConfig>>

\* The timer of an earlier listener fires: its server is closed already and
\* its promise settled.
StaleTimerFires ==
    /\ pc # "exited"
    /\ listener.stale > 0
    /\ listener' = [listener EXCEPT !.stale = @ - 1]
    /\ UNCHANGED <<config, pc, service, apiKey, output, ending, printed, oauth, clock,
                   outsideConfig>>

\* The catch blocks above authenticateGoogleDrive: back to the menu on a
\* failed re-authorization, the end of the setup otherwise.
authorizationFailed(message) ==
    IF oauth.existing
    THEN /\ output' = output \cup {"AuthorizationFailed", "ReauthorizationFailed", message}
         /\ pc' = "gd.menu"
         /\ UNCHANGED ending
    ELSE Return({"AuthorizationFailed", "SetupFailed", message})

\* "await startCallbackServer()" continues.
AuthorizationSettled ==
    /\ pc = "oauth.wait"
    /\ listener.promise \in {"resolved", "rejected"}
    /\ IF listener.promise = "resolved"
       THEN /\ output' = output \cup {"AuthorizationReceived"}
            /\ pc' = "oauth.token"
            /\ UNCHANGED ending
       ELSE authorizationFailed(listener.value)
    /\ UNCHANGED <<config, service, apiKey, dialogue, outsideConfig>>

\* TokenResponse that saves the credentials before it looks for the refresh
\* token.
TokenResponseSavesFirst ==
    /\ pc = "oauth.token"
    /\ \E token \in tokenResponses(oauth.clientId, oauth.clientSecret) :
          IF token = "invalid_grant"
          THEN authorizationFailed(token) /\ UNCHANGED config
          ELSE /\ config' = saveConfig(config, "googleDrive",
                                       [clientId |-> oauth.clientId,
                                        clientSecret |-> oauth.clientSecret,
                                        refreshToken |-> IF Truthy(token) THEN token ELSE ""])
               /\ IF ~Truthy(token)
                  THEN authorizationFailed("No refresh token received")
                  ELSE Return({IF oauth.existing THEN "GoogleDriveReauthorized"
                                                 ELSE "GoogleDriveConfigured"})
    /\ UNCHANGED <<service, apiKey, dialogue, outsideConfig>>

\* oauth2Client.getToken(code) settled.
TokenResponse ==
    /\ pc = "oauth.token"
    /\ \E token \in tokenResponses(oauth.clientId, oauth.clientSecret) :
          IF token = "invalid_grant"
          THEN authorizationFailed(token) /\ UNCHANGED config
          ELSE IF ~Truthy(token)
          THEN authorizationFailed("No refresh token received") /\ UNCHANGED config
          ELSE /\ config' = saveConfig(config, "googleDrive",
                                       [clientId |-> oauth.clientId,
                                        clientSecret |-> oauth.clientSecret,
                                        refreshToken |-> token])
               /\ Return({IF oauth.existing THEN "GoogleDriveReauthorized"
                                              ELSE "GoogleDriveConfigured"})
    /\ UNCHANGED <<service, apiKey, dialogue, outsideConfig>>

\* Nothing keeps the event loop alive any more.
ProcessEnds ==
    /\ pc = "returned"
    /\ listener.timer # "armed" /\ listener.stale = 0
    /\ Terminate(0, "end", {})
    /\ UNCHANGED <<config, service, apiKey, dialogue, outsideConfig>>

NextConfig ==
    \/ SelectService
    \/ EnterApiKey
    \/ ConfigMenu
    \/ ChangeApiKey
    \/ ConfirmDelete
    \/ GoogleDriveMenu
    \/ ConfirmDeleteGoogleDrive
    \/ EnterClientId
    \/ EnterClientSecret
    \/ BrowserOpened
    \/ CallbackRequest
    \/ Tick
    \/ TimerFires
    \/ StaleTimerFires
    \/ AuthorizationSettled
    \/ TokenResponse
    \/ ProcessEnds

SpecConfig == InitConfig /\ [][NextConfig]_vars

\* Another invocation of pld --config deletes the key of the service while
\* this one is in its menu: deleteServiceConfig(service) of that process.
KeyRemoved ==
    /\ pc \in {"config.menu", "config.change", "config.confirm"}
    /\ deleteServiceConfig(config, service).message = "KeyDeleted"
    /\ config' = deleteServiceConfig(config, service).file
    /\ UNCHANGED <<pc, service, apiKey, output, ending, dialogue, outsideConfig>>

\* pld --config on a machine where the config can be changed under it.
NextConfigShared ==
    \/ SelectService
    \/ EnterApiKey
    \/ ConfigMenu
    \/ ChangeApiKey
    \/ ConfirmDelete
    \/ GoogleDriveMenu
    \/ ConfirmDeleteGoogleDrive
    \/ EnterClientId
    \/ EnterClientSecret
    \/ BrowserOpened
    \/ CallbackRequest
    \/ Tick
    \/ TimerFires
    \/ StaleTimerFires
    \/ AuthorizationSettled
    \/ TokenResponse
    \/ ProcessEnds
    \/ KeyRemoved

SpecConfigShared == InitConfig /\ [][NextConfigShared]_vars

\* The event loop runs a timer that is due, and time does not stop.
LiveConfig == SpecConfig /\ WF_vars(Tick) /\ WF_vars(TimerFires)

\* ------------------------------------------------------------- properties
\* What the properties call things, read off the state rather than off the
\* operators above.
StoredKey(svc) == config.exists /\ config.hasServices /\ Truthy(config.services[svc])
OldFormatKey == config.exists /\ Truthy(config.apiKey)
GoogleDriveStored ==
    /\ config.exists /\ config.googleDrive.present
    /\ Truthy(config.googleDrive.clientId)
    /\ Truthy(config.googleDrive.clientSecret)
    /\ Truthy(config.googleDrive.refreshToken)
SizeLimitMiB == 10 * 1024
OverLimit(path) == FileSystem[path].size > SizeLimitMiB
Exited == pc = "exited"
ExitedByItself == pc = "exited" /\ exitBy # "signal"
Stored == IF historyFile.kind = "list" THEN historyFile.entries ELSE <<>>

\* C1: every saveHistory call that writes the history file leaves at most 50
\* entries in it, whatever the file held before (absent, unreadable, empty,
\* or 50 and more entries), so any sequence of calls ends with at most 50.
C1_HistoryBounded ==
    [][histWrites' = histWrites + 1
         => (historyFile'.kind = "list" /\ Len(historyFile'.entries) <= 50)]_vars

\* C1 witness: an entry was saved on top of a history that held 50 or more
\* entries, and the tail was dropped.
C1_Witness ==
    /\ histWrites = 1
    /\ Len(Stored) = 50
    /\ Stored[50] = StoredEntry(49)

\* C2 as stated: for all three services, a SIGINT that arrives while the
\* upload request is in flight aborts it through the cancellation token and
\* the process exits.
C2_AllServicesAbort ==
    sigintAt \in {"request", "files.create"} => (aborted /\ Exited)

\* C2 amended: for Pixeldrain and Gofile a SIGINT during the request runs the
\* cancel handler, which aborts the request through the token and exits with
\* code 0; the Google Drive upload has no handler and no token, there the
\* signal ends the process by its default action and nothing is aborted.
C2_CancelAbortsRequest ==
    /\ sigintAt = "request" =>
          (aborted /\ Exited /\ exitBy = "exit" /\ exitCode = 0 /\ "CancelledByUser" \in output)
    /\ sigintAt = "files.create" =>
          (~aborted /\ Exited /\ exitBy = "signal" /\ "CancelledByUser" \notin output)

\* C2 witness: a Gofile request was interrupted and aborted.
C2_Witness == sigintAt = "request" /\ service = "gofile" /\ aborted /\ Exited

\* C3 as stated: every progress event takes a sample (none is skipped) and
\* the ETA shown is a non-negative number.
C3_EverySampleTaken ==
    pc = "request" =>
        /\ progress.samples = progress.events
        /\ progress.display.shown =>
              (progress.display.eta # "NaN" /\ progress.display.etaSeconds >= 0)

\* C3 amended: a progress event with a total and with time elapsed since the
\* last sample recomputes speed = (bytes since the last sample) / (seconds
\* since the last sample) and ETA = round((total - loaded) / speed) and
\* becomes the last sample; the ETA is never negative: a non-negative number
\* when bytes were sent since the last sample, else Infinity, or NaN when
\* nothing remains.  An event without a total or without elapsed time is
\* skipped: the display and the last sample stay as they were.
C3_SampleOrSkip ==
    [][(pc = "request" /\ progress'.events = progress.events + 1) =>
        LET loaded == progress'.eventLoaded
            ms == progress'.now - progress.lastTime
            bytes == loaded - progress.lastLoaded
            remaining == progress.total - loaded
            shown == progress'.display
        IN  IF progress.total > 0 /\ ms > 0
            THEN /\ progress'.samples = progress.samples + 1
                 /\ progress'.lastLoaded = loaded
                 /\ progress'.lastTime = progress'.now
                 /\ shown.shown
                 /\ shown.speedNum * ms = bytes * 1000 * shown.speedDen
                 /\ bytes > 0 =>
                       /\ shown.eta = "number"
                       /\ shown.etaSeconds >= 0
                       /\ 2 * bytes * 1000 * shown.etaSeconds <= 2 * remaining * ms + bytes * 1000
                       /\ 2 * bytes * 1000 * shown.etaSeconds > 2 * remaining * ms - bytes * 1000
                 /\ bytes = 0 =>
                       shown.eta = (IF remaining = 0 THEN "NaN" ELSE "Infinity")
            ELSE /\ progress'.samples = progress.samples
                 /\ progress'.lastLoaded = progress.lastLoaded
                 /\ progress'.lastTime = progress.lastTime
                 /\ shown = progress.display]_vars

\* C3 witness: a sample was taken after an event had been skipped, and it
\* shows a positive ETA.
C3_Witness ==
    /\ pc = "request"
    /\ progress.events = 2 /\ progress.samples = 1
    /\ progress.display.eta = "number" /\ progress.display.etaSeconds > 0

\* C4 as stated: with flag 'pd' and no Pixeldrain key stored no request is
\* sent, no history entry is written, and the process exits with code 1.
C4_NoKeyExitsOne ==
    (args.flag = "pd" /\ ~StoredKey("pixeldrain") /\ ~OldFormatKey) =>
        /\ requests = <<>>
        /\ histWrites = 0
        /\ ExitedByItself => exitCode = 1

\* C4 amended: with flag 'pd' and no Pixeldrain key stored no request is
\* sent and no history entry is written; the process exits with code 1,
\* except that for a file larger than 10 GiB the size confirmation comes
\* first and declining it exits with code 0.
C4_NoKeyNoRequest ==
    (args.flag = "pd" /\ ~StoredKey("pixeldrain") /\ ~OldFormatKey) =>
        /\ requests = <<>>
        /\ histWrites = 0
        /\ ExitedByItself =>
              /\ exitCode = (IF "Declined" \in output THEN 0 ELSE 1)
              /\ "Declined" \in output => OverLimit(args.file)

\* C4 witness: the key check stopped a Pixeldrain upload.
C4_Witness ==
    /\ args.flag = "pd" /\ ~StoredKey("pixeldrain") /\ ~OldFormatKey
    /\ Exited /\ exitCode = 1 /\ "NoApiKey" \in output

\* C5: a Gofile upload of an existing file sends its request with and
\* without a stored key; the request has the header Authorization: Bearer
\* <token> exactly when a token is stored; a request to Pixeldrain or a
\* Drive API call is only made with stored credentials.
C5_GofileOptionalToken ==
    /\ \A i \in DOMAIN requests :
          /\ requests[i].service = "gofile" =>
                requests[i].authorization =
                    (IF StoredKey("gofile")
                     THEN [scheme |-> "Bearer", user |-> "", secret |-> config.services.gofile]
                     ELSE [scheme |-> "none", user |-> "", secret |-> ""])
          /\ requests[i].service = "pixeldrain" => StoredKey("pixeldrain")
    /\ driveCalls # <<>> => GoogleDriveStored
    /\ (service = "gofile" /\ FileSystem[args.file].exists /\ pc # "start" /\ sigintAt # "start")
          => Len(requests) = 1

\* C5 witness: an anonymous Gofile request is in flight.
C5_Witness ==
    /\ pc = "request" /\ service = "gofile" /\ ~StoredKey("gofile")
    /\ Len(requests) = 1 /\ requests[1].authorization.scheme = "none"

\* C6: a Drive API call is made only with a client ID, a client secret and
\* a refresh token stored; with one of them missing a Google Drive upload
\* exits with code 1, calls no Drive API and writes no history.
C6_DriveNeedsCredentials ==
    /\ driveCalls # <<>> => GoogleDriveStored
    /\ (args.flag = "gd" /\ ~GoogleDriveStored) =>
          /\ driveCalls = <<>>
          /\ histWrites = 0
          /\ ExitedByItself => exitCode = 1

\* C6 witness: an upload of an existing file stopped because only the
\* refresh token is missing.
C6_Witness ==
    /\ args.flag = "gd" /\ FileSystem[args.file].exists
    /\ config.exists /\ config.googleDrive.present
    /\ Truthy(config.googleDrive.clientId) /\ Truthy(config.googleDrive.clientSecret)
    /\ ~Truthy(config.googleDrive.refreshToken)
    /\ Exited /\ exitCode = 1 /\ "NotConfigured" \in output

C7_Order == <<"files.create", "permissions.create", "files.get">>

\* C7: the Drive API calls are made in the order files.create,
\* permissions.create (role reader, type anyone), files.get; the link is
\* shown and the history entry written only after permissions.create has
\* succeeded, and when it fails no entry is written.
C7_PermissionsBeforeLink ==
    /\ Len(driveCalls) <= 3
    /\ \A i \in DOMAIN driveCalls :
          /\ driveCalls[i].api = C7_Order[i]
          /\ driveCalls[i].api = "permissions.create" =>
                (driveCalls[i].role = "reader" /\ driveCalls[i].type = "anyone")
    /\ (service = "googledrive" /\ (histWrites > 0 \/ shownLink # <<>>)) =>
          (Len(driveCalls) = 3 /\ driveCalls[2].api = "permissions.create")
    /\ (Exited /\ Len(driveCalls) = 2) => (histWrites = 0 /\ shownLink = <<>>)

\* C7 witness: the link of a Google Drive upload is shown.
C7_Witness ==
    service = "googledrive" /\ histWrites = 1 /\ shownLink # <<>> /\ Len(driveCalls) = 3

\* The adapter each flag stands for in the README's command table.
FlagAdapter(flag) ==
    CASE flag = "pd" -> "pixeldrain"
      [] flag = "gd" -> "googledrive"
      [] OTHER -> "gofile"

\* C8 as stated: 'pd' goes to Pixeldrain, 'gd' to Google Drive, everything
\* else to Gofile, and a call of uploadFile that ran to its end has invoked
\* exactly one adapter.
C8_ExactlyOneAdapter ==
    /\ adapters \subseteq {FlagAdapter(args.flag)}
    /\ ExitedByItself => Cardinality(adapters) = 1

\* C8 amended: at most one adapter is invoked per call and it is the one of
\* the flag ('pd' Pixeldrain, 'gd' Google Drive, else Gofile); none is
\* invoked when the flag is 'pd' and no Pixeldrain key is found or the size
\* confirmation is declined, else exactly one.
C8_RoutedAdapter ==
    /\ adapters \subseteq {FlagAdapter(args.flag)}
    /\ (pc \notin {"start", "confirm"} /\ sigintAt \notin {"start", "confirm"}) =>
          (adapters = {} <=>
              (args.flag = "pd" /\ (~StoredKey("pixeldrain") \/ "Declined" \in output)))

\* C8 witness: an unknown flag started a Gofile upload.
C8_Witness == args.flag = "xx" /\ adapters = {"gofile"} /\ pc = "request"

\* The invocation printed "Upload Successful!".
SuccessReported == "UploadSuccessful" \in output

\* C9: an upload that reports success has written one history entry, now
\* the first of the history, with service, timestamp, filename and fileSize
\* of this upload and with fileId and downloadLink read from the response
\* of the service: Pixeldrain (id, 'https://pixeldrain.com/u/' + id), Gofile
\* (data.fileId, data.downloadPage), Google Drive (id, webViewLink or else
\* the drive.google.com/file/d/<id>/view URL).
C9_EntryFromResponse ==
    SuccessReported =>
        /\ histWrites = 1
        /\ historyFile.kind = "list"
        /\ response # NoBody
        /\ LET e == historyFile.entries[1]
           IN  /\ DOMAIN e = {"service", "timestamp", "filename", "fileSize", "fileId",
                              "downloadLink"}
               /\ e.service = FlagAdapter(args.flag)
               /\ e.timestamp = inv
               /\ e.filename = args.file
               /\ e.fileSize = <<1000, "GB">>
               /\ e.downloadLink = shownLink
               /\ e.service = "pixeldrain" =>
                     /\ e.fileId = response.id
                     /\ e.downloadLink = <<"https://pixeldrain.com/u/", response.id>>
               /\ e.service = "gofile" =>
                     /\ e.fileId = response.dataFileId
                     /\ e.downloadLink = <<response.dataDownloadPage>>
               /\ e.service = "googledrive" =>
                     /\ e.fileId = response.id
                     /\ e.downloadLink =
                           (IF response.webViewLink # NoEntry
                            THEN <<response.webViewLink>>
                            ELSE <<"https://drive.google.com/file/d/", response.id,
                                   "/view?usp=sharing">>)

\* C9 witness: a Google Drive upload without webViewLink reported success.
C9_Witness ==
    SuccessReported /\ service = "googledrive" /\ response.webViewLink = NoEntry

\* C10: an invocation sends at most one upload request (one axios.post or
\* one files.create), writes at most one history entry, and after a failed
\* upload it has exited with code 1: nothing is sent again.
C10_OneUploadNoRetry ==
    /\ Len(requests)
         + Cardinality({i \in DOMAIN driveCalls : driveCalls[i].api = "files.create"}) <= 1
    /\ histWrites <= 1
    /\ "UploadFailed" \in output => (Exited /\ exitCode = 1 /\ exitBy = "exit")

\* C10 witness: a request failed and the invocation is over.
C10_Witness ==
    /\ "UploadFailed" \in output /\ Len(requests) = 1 /\ response = NoBody
    /\ Exited /\ histWrites = 0

\* Where the writers' accesses sit in the schedule (0: did not happen).
Position(step, i) ==
    LET at == {n \in DOMAIN schedule : schedule[n] = [step |-> step, writer |-> i]}
    IN  IF at = {} THEN 0 ELSE CHOOSE n \in at : TRUE
\* Writer a wrote last, after having read before writer b wrote, and both
\* rewrote the same file.
Interleaved(a, b) ==
    /\ a # b
    /\ writers[a].update.call = writers[b].update.call
    /\ Position("write", a) > 0 /\ Position("write", b) > 0
    /\ Position("write", b) < Position("write", a)
    /\ Position("load", a) < Position("write", b)
\* The update of writer i is in the file.
InFile(i) ==
    LET u == writers[i].update
    IN  IF u.call = "saveHistory"
        THEN historyFile.kind = "list"
             /\ \E n \in DOMAIN historyFile.entries : historyFile.entries[n] = u.entry
        ELSE /\ config.exists
             /\ IF u.serviceType = "googleDrive"
                THEN /\ config.googleDrive.present
                     /\ config.googleDrive.refreshToken = u.credentials.refreshToken
                ELSE config.hasServices /\ config.services[u.serviceType] = u.credentials.apiKey

\* C11: when two invocations rewrite the same file (history or config) and
\* the one that writes last had read the file before the other one wrote,
\* the file holds the update of the last writer and the update of the other
\* (its history entry or its credential) is lost.
C11_InterleavedUpdateLost ==
    \A a, b \in Writers : Interleaved(a, b) => (InFile(a) /\ ~InFile(b))

\* C11 witness: both writers saved a credential, for different services, and
\* their reads and writes interleaved.
C11_Witness ==
    \E a, b \in Writers :
        /\ Interleaved(a, b)
        /\ writers[a].update.call = "saveConfig"
        /\ writers[a].update.serviceType = "gofile"
        /\ writers[b].update.serviceType = "pixeldrain"

\* C12: an upload that fails (the server answers with an error, the network
\* fails, or anything else throws in the adapter) prints "Upload failed", ends
\* the process with exit code 1 and has written nothing to the history; for
\* status 401 or 403 the output tells the user to run 'pld --config'.
C12_FailureExitsOne ==
    [][(caught = NoEntry /\ caught' # NoEntry) =>
          /\ "UploadFailed" \in output'
          /\ pc' = "exited" /\ exitCode' = 1 /\ exitBy' = "exit"
          /\ historyFile' = historyFile /\ histWrites' = 0
          /\ caught' \in {"401", "403"} => "Reconfigure" \in output']_vars

\* C12 witness: Google Drive answered 403 and the invocation is over.
C12_Witness ==
    /\ caught = "403" /\ service = "googledrive"
    /\ Exited /\ exitCode = 1 /\ "Reconfigure" \in output

\* C13: every invocation that reported a successful upload and ran to its end
\* tried to copy the link; it ended with code 0 and with its entry at the
\* head of the history, with the link on the clipboard when the write
\* succeeded and with only a warning printed when it failed.
C13_ClipboardBestEffort ==
    /\ SuccessReported => pc \in {"clipboard", "exited"}
    /\ (SuccessReported /\ ExitedByItself) =>
          /\ exitBy = "end" /\ exitCode = 0
          /\ "UploadFailed" \notin output
          /\ histWrites = 1 /\ Stored[1].downloadLink = shownLink
          /\ ("LinkCopied" \in output) # ("ClipboardWarning" \in output)
          /\ "LinkCopied" \in output => clipboard = shownLink
          /\ "ClipboardWarning" \in output => clipboard = NoLink

\* C13 witness: the upload succeeded and the clipboard write failed.
C13_Witness ==
    /\ SuccessReported /\ Exited /\ "ClipboardWarning" \in output
    /\ service = "pixeldrain"

\* A reply that is a number: after trimming, one or more decimal digits and
\* nothing else; and the number it denotes.
DecimalDigits == {"0", "1", "2", "3", "4", "5", "6", "7", "8", "9"}
IsNumber(reply) ==
    LET t == trim(reply)
    IN  t # <<>> /\ \A n \in DOMAIN t : t[n] \in DecimalDigits
RECURSIVE NumberOf(_)
NumberOf(digits) ==
    IF digits = <<>> THEN 0
    ELSE 10 * NumberOf(SubSeq(digits, 1, Len(digits) - 1))
         + (CHOOSE d \in 0..9 : ToString(d) = digits[Len(digits)])
ShownLimit == IF Len(Stored) < 10 THEN Len(Stored) ELSE 10
InHistoryView == pc \in {"list.menu", "list.select", "list.copy", "list.confirm"}

\* C14 as stated: the view shows the first min(10, n) of the n stored
\* entries; a reply to 'Copy a link' is accepted exactly when it is a number
\* in 1..min(10, n), and then the link of the entry shown under that number
\* is what is copied; after any other reply nothing is copied and the
\* history stays as it is.
C14_CopyOnlyNumberInRange ==
    /\ [](InHistoryView => listing.shown = SubSeq(Stored, 1, ShownLimit))
    /\ [][(pc = "list.select" /\ pc' # "list.select") =>
            IF IsNumber(typed') /\ NumberOf(trim(typed')) \in 1..ShownLimit
            THEN pc' = "list.copy"
            ELSE /\ pc' = "list.menu" /\ "InvalidSelection" \in output'
                 /\ clipboard' = clipboard /\ historyFile' = historyFile]_vars
    /\ [][pc = "list.copy" =>
            /\ IsNumber(typed) /\ NumberOf(trim(typed)) \in 1..ShownLimit
            /\ clipboard' \in {clipboard, listing.shown[NumberOf(trim(typed))].downloadLink}
            /\ historyFile' = historyFile]_vars

\* C16 as stated: when the config is in the old format (a top-level apiKey,
\* no services), the lookup of the Pixeldrain credentials at the start of an
\* upload returns that apiKey and leaves it under services.pixeldrain.
C16_OldFormatMigrates ==
    [][(/\ pc = "start" /\ pc' # "start" /\ service' = "pixeldrain"
        /\ config.exists /\ Truthy(config.apiKey) /\ ~config.hasServices) =>
          /\ apiKey' = config.apiKey
          /\ config'.hasServices
          /\ config'.services.pixeldrain = config.apiKey]_vars

\* C18: a SIGINT during the request of a Pixeldrain or Gofile upload ends the
\* process with exit code 0; no history entry was written, nothing was
\* copied, and the catch block of the adapter (exit code 1) did not run.
C18_CancelExitsZero ==
    (sigintAt = "request" /\ service \in {"pixeldrain", "gofile"}) =>
        /\ Exited /\ exitBy = "exit" /\ exitCode = 0
        /\ histWrites = 0
        /\ clipboard = NoLink
        /\ caught = NoEntry /\ "UploadFailed" \notin output

\* C18 witness: a Pixeldrain request in flight was cancelled.
C18_Witness ==
    /\ sigintAt = "request" /\ service = "pixeldrain" /\ Len(requests) = 1
    /\ Exited /\ "CancelledByUser" \in output

\* C19: a saveHistory call that writes the file puts its entry first, keeps
\* the entries it loaded behind it in their order, and drops entries only
\* from the tail, exactly those beyond the 50th.
C19_HeadThenOlderInOrder ==
    [][histWrites' = histWrites + 1 =>
        LET old == Stored
            new == historyFile'.entries
            kept == IF Len(old) < 50 THEN Len(old) ELSE 49
        IN  /\ historyFile'.kind = "list"
            /\ Len(new) = kept + 1
            /\ new[1].timestamp = inv /\ new[1].downloadLink = shownLink'
            /\ \A i \in 1..kept : new[i + 1] = old[i]]_vars

\* C19 witness: an entry was saved in front of 50 or more stored entries;
\* the first 49 of them follow it.
C19_Witness ==
    /\ histWrites = 1 /\ Len(Stored) = 50
    /\ Stored[1].timestamp = inv
    /\ Stored[2] = StoredEntry(1) /\ Stored[50] = StoredEntry(49)

\* C20: while the process runs, handleCancel is registered exactly while a
\* Pixeldrain or Gofile request is in flight; a SIGINT that arrives at any
\* other point (before the upload, during a Google Drive call, or after the
\* response: history, link, clipboard) does not run the cancel path.
C20_HandlerOnlyDuringRequest ==
    /\ pc # "exited" =>
          (sigintHandler <=> (pc = "request" /\ service \in {"pixeldrain", "gofile"}))
    /\ sigintAt \notin {NoEntry, "request"} =>
          (/\ ~aborted /\ "CancelledByUser" \notin output
           /\ exitBy = "signal")

\* C20 witness: the interrupt came while the link was being copied.
C20_Witness ==
    /\ sigintAt = "clipboard" /\ service = "gofile"
    /\ histWrites = 1 /\ exitBy = "signal"

\* ---------------------------------------------------- claims C15 and C17
\* text is a head and a tail of the characters cs around an ellipsis that
\* together hold every character of cs.
ShowsAll(text, cs) ==
    \E head \in 0..Len(cs), tail \in 0..Len(cs) :
        /\ head + tail >= Len(cs)
        /\ text = SubSeq(cs, 1, head) \o Ellipsis \o SubSeq(cs, Len(cs) - tail + 1, Len(cs))

\* C15: the API key is never displayed: whatever the length of the stored
\* key, no line the program prints lets the full key be read.
C15_KeyNeverReadable ==
    \A line \in printed :
        line.label = "CurrentApiKey" => ~ShowsAll(line.text, Characters[apiKey])

Listening == listener.open /\ listener.promise = "pending"
Settled == listener.promise \in {"resolved", "rejected"} /\ ~listener.open
WithError(req) == req.path = "/callback" /\ Truthy(req.error)
WithCode(req) == req.path = "/callback" /\ Truthy(req.code) /\ ~Truthy(req.error)

\* A step that settles the promise of the listener is one of the three cases,
\* and a request that reaches the listener settles it as its case says.
SettlesByCase ==
    /\ (listener.promise = "pending" /\ listener'.promise # "pending") =>
          /\ ~listener'.open
          /\ \/ /\ WithCode(listener'.request)
                /\ listener'.promise = "resolved"
                /\ listener'.value = listener'.request.code
             \/ /\ WithError(listener'.request)
                /\ listener'.promise = "rejected"
                /\ listener'.value = listener'.request.error
             \/ /\ ~WithCode(listener'.request) /\ ~WithError(listener'.request)
                /\ clock = AUTH_TIMEOUT_MS
                /\ listener'.promise = "rejected"
                /\ listener'.value = "Authorization timeout"
    /\ (Listening /\ listener'.request # listener.request) =>
          IF WithCode(listener'.request) \/ WithError(listener'.request)
          THEN listener'.promise # "pending" /\ ~listener'.open
          ELSE listener' = [listener EXCEPT !.request = listener'.request]

\* C17: a started callback listener eventually settles; it resolves with the
\* code on /callback with a code, rejects on /callback with an error (also
\* when the request carries a code too), and rejects with 'Authorization
\* timeout' 120 seconds after its start when neither arrived; in each case
\* the listener is closed.
C17_ListenerSettles ==
    /\ Listening ~> Settled
    /\ [][SettlesByCase]_vars
    /\ [](listener.promise \in {"resolved", "rejected"} => ~listener.open)

C17_Witness ==
    /\ listener.promise = "rejected"
    /\ listener.value = "Authorization timeout"
    /\ listener.timer = "fired"
    /\ listener.request.path = "/favicon.ico"
    /\ clock = AUTH_TIMEOUT_MS
    /\ ~listener.open

\* ------------------------------------------------------ claims C21 to C30
YesReplies == {"y", "Y", "yes", "Yes", "yEs", "yeS", "YEs", "YeS", "yES", "YES"}
Prompted == pc = "confirm" \/ "SizeWarning" \in output \/ answer # NoEntry

\* The reply to the size prompt arrives: any reply but a yes ends the
\* process with code 0, no request sent and the history as it was.
DeclineEndsQuietly ==
    (pc = "confirm" /\ answer' # answer /\ answer' \notin YesReplies) =>
        /\ pc' = "exited" /\ exitBy' = "exit" /\ exitCode' = 0
        /\ requests' = <<>>
        /\ historyFile' = historyFile /\ histWrites' = 0

\* C21: a Pixeldrain upload of a file larger than 10 GiB starts only after
\* the reply 'y' or 'yes' (in any case) to the confirmation prompt; any other
\* reply ends the process with exit code 0, no request sent and no history
\* written; a file of at most 10 GiB is never prompted for.
C21_LargeFileNeedsYes ==
    /\ []((service = "pixeldrain" /\ OverLimit(args.file) /\ requests # <<>>)
             => answer \in YesReplies)
    /\ [][DeclineEndsQuietly]_vars
    /\ [](Prompted => (service = "pixeldrain" /\ OverLimit(args.file)))

\* C21 witness: the prompt for a file above the limit was answered with
\* something else than a yes, and the process is over.
C21_Witness ==
    /\ service = "pixeldrain" /\ OverLimit(args.file) /\ StoredKey("pixeldrain")
    /\ answer = "n" /\ Exited /\ exitCode = 0 /\ requests = <<>>

\* C22: for each of the three services an upload of a path that does not
\* exist ends with exit code 1, sends no request to the service and leaves
\* the history as it was.
C22_MissingFileExitsOne ==
    /\ [](~FileSystem[args.file].exists =>
            /\ requests = <<>> /\ driveCalls = <<>>
            /\ histWrites = 0
            /\ ExitedByItself => exitCode = 1)
    /\ [][(~FileSystem[args.file].exists /\ inv' = inv) => historyFile' = historyFile]_vars

\* C22 witness: a Gofile upload of a missing path, refused by the adapter,
\* with a history on disk.
C22_Witness ==
    /\ ~FileSystem[args.file].exists
    /\ service = "gofile" /\ adapters = {"gofile"}
    /\ "FileNotFound" \in output
    /\ Exited /\ exitCode = 1
    /\ Len(Stored) >= 50

BlankReplies == {"", "  "}
ServiceKeys == {"pixeldrain", "gofile"}

\* A blank first entry exits with code 1 and a blank entry under 'Change API
\* key' goes back to the menu, both with the config as it was.
BlankEntryRefused ==
    /\ (pc = "config.key" /\ pc' # pc /\ answer' \in BlankReplies) =>
          (pc' = "exited" /\ exitBy' = "exit" /\ exitCode' = 1 /\ config' = config)
    /\ (pc = "config.change" /\ pc' # pc /\ answer' \in BlankReplies) =>
          (pc' = "config.menu" /\ config' = config)

\* C23: the configuration dialogue never stores an empty API key: an empty
\* or whitespace-only first entry exits with code 1 and leaves the config
\* unchanged; an empty entry under 'Change API key' leaves the config
\* unchanged and returns to the menu.
C23_NoEmptyKeyStored ==
    /\ [](\A svc \in ServiceKeys :
             (config.exists /\ config.hasServices) => config.services[svc] \notin BlankReplies)
    /\ [][BlankEntryRefused]_vars

\* C23 witness: 'Change API key' was answered with spaces and the dialogue
\* is back at the menu with the old key.
C23_Witness ==
    /\ pc = "config.menu" /\ answer = "  " /\ "EmptyKey" \in output
    /\ service = "gofile" /\ config.services["gofile"] = apiKey

OAuthSteps == {"oauth.open", "oauth.wait", "oauth.token"}
Complete(entry) ==
    /\ entry.present
    /\ Truthy(entry.clientId) /\ Truthy(entry.clientSecret) /\ Truthy(entry.refreshToken)

\* Credentials are written only by the step that received a refresh token,
\* after the listener resolved with a code, and they are complete; every
\* other step of an authorization leaves the config as it was.
WrittenAfterExchange ==
    /\ (config'.googleDrive # config.googleDrive /\ config'.googleDrive.present) =>
          /\ pc = "oauth.token" /\ listener.promise = "resolved"
          /\ Complete(config'.googleDrive)
          /\ config'.googleDrive.clientId = oauth.clientId
          /\ config'.googleDrive.clientSecret = oauth.clientSecret
          /\ pc' = "returned"
    /\ (pc \in OAuthSteps /\ pc' \in {"gd.menu", "returned"}
           /\ output' \cap {"GoogleDriveConfigured", "GoogleDriveReauthorized"} = {}) =>
          config' = config
    /\ (pc \in OAuthSteps /\ pc' \in OAuthSteps) => config' = config

ClearOrKeep ==
    (pc = "list.confirm" /\ pc' # pc) =>
        IF answer' \in {"y", "Y"}
        THEN /\ historyFile'.kind = "absent"
             /\ (IF historyFile'.kind = "list" THEN historyFile'.entries ELSE <<>>) = <<>>
             /\ pc' = "exited" /\ exitCode' = 0
             /\ historyFile.kind = "absent" =>
                   (historyFile' = historyFile /\ "NoHistoryToDelete" \in output')
        ELSE /\ historyFile' = historyFile
             /\ pc' = "list.menu"

OtherService(svc) == IF svc = "pixeldrain" THEN "gofile" ELSE "pixeldrain"

\* A step of the dialogue that saves a key or the Google Drive credentials
\* changes the entry it saves and no other member of the config.
SavesOneEntry ==
    /\ (pc \in {"config.key", "config.change"} /\ config' # config) =>
          /\ config'.services[service] # config.services[service]
          /\ config'.services[OtherService(service)] = config.services[OtherService(service)]
          /\ config'.googleDrive = config.googleDrive
          /\ config'.apiKey = config.apiKey
    /\ (pc = "oauth.token" /\ config' # config) =>
          /\ config'.googleDrive # config.googleDrive
          /\ config'.services = config.services
          /\ config'.hasServices = config.hasServices
          /\ config'.apiKey = config.apiKey

\* C26: saveConfig changes only the entry of the service it is called for:
\* saving a Pixeldrain or Gofile key leaves the key of the other service and
\* the googleDrive entry unchanged, and saving googleDrive credentials leaves
\* every entry under services unchanged.
C26_SaveConfigFrame == [][SavesOneEntry]_vars

\* C26 witness: the Pixeldrain key was replaced in a config that holds a
\* Gofile key and a googleDrive entry, and both are still there.
C26_Witness ==
    /\ service = "pixeldrain" /\ "KeyUpdated" \in output
    /\ config.services["pixeldrain"] = "abcdefgh"
    /\ config.services["gofile"] = "gfKey"
    /\ config.googleDrive = GoogleDriveEntry("clientId", "clientSecret", "refreshToken")

\* The confirmed deletion of a key, or of the Google Drive configuration,
\* takes that entry out of the config and nothing else; without a key for
\* the service the config stays as it is.
DeletesOneEntry ==
    /\ (pc = "config.confirm" /\ pc' = "exited") =>
          IF StoredKey(service) \/ (config.exists /\ config.hasServices
                                      /\ config.services[service] = "")
          THEN /\ "KeyDeleted" \in output'
               /\ config'.services[service] = NoEntry
               /\ ~getServiceCredentials(config', service).found
               /\ config'.services[OtherService(service)] = config.services[OtherService(service)]
               /\ config'.googleDrive = config.googleDrive
               /\ config'.apiKey = config.apiKey
          ELSE /\ "NoKeyToDelete" \in output'
               /\ config' = config
    /\ (pc = "gd.confirm" /\ config' # config) =>
          /\ ~config'.googleDrive.present
          /\ config'.services = config.services
          /\ config'.hasServices = config.hasServices
          /\ config'.apiKey = config.apiKey

C28_SpeedPositive ==
    (pc = "request" /\ progress.display.shown) =>
        /\ progress.display.speedNum > 0
        /\ progress.display.eta = "number"

SuccessfulResponse == response.received /\ (service = "gofile" => response.hasData)

\* C29: once the service has returned a successful upload response the
\* invocation displays the download link and does not end on the failure
\* path with exit code 1, whatever the history store holds (no file, an
\* unreadable file, JSON that is not a list).
C29_SuccessShowsLink ==
    SuccessfulResponse =>
        /\ shownLink # NoLink
        /\ "UploadFailed" \notin output
        /\ ~(Exited /\ exitCode = 1)

\* The promise of one listener keeps its outcome once it has one, and a
\* request that is neither /callback with a code nor /callback with an error
\* leaves the promise pending and the listener open.
SettledForGood ==
    /\ (listener.promise \in {"resolved", "rejected"} /\ pc # "oauth.open") =>
          (listener'.promise = listener.promise /\ listener'.value = listener.value)
    /\ (Listening /\ listener'.request # listener.request
           /\ ~(listener'.request.path = "/callback"
                 /\ (Truthy(listener'.request.code) \/ Truthy(listener'.request.error)))) =>
          (listener'.promise = "pending" /\ listener'.open)

\* C30: the promise of startCallbackServer settles at most once: after a code
\* or an error settled it, the 120-second timeout that fires later does not
\* change the outcome; a request to /callback with neither code nor error and
\* a request to another path neither settle the promise nor close the
\* listener.
C30_SettlesAtMostOnce == [][SettledForGood]_vars

\* C30 witness: the timer fired after the promise had been resolved with the
\* code, and the outcome is still the code.
C30_Witness ==
    /\ listener.promise = "resolved" /\ listener.value = "authCode"
    /\ listener.timer = "fired" /\ clock = AUTH_TIMEOUT_MS

====
